---- MODULE Spec2Model ----
(***************************************************************************)
(* z-loader: the observe / pause / inject control plane.                   *)
(*                                                                         *)
(*   Spec        the kernel tracer (loader/ebpf), the event channel, the   *)
(*               reactor loop of monitor::main with its bootloop tracker   *)
(*               and attachment map, and the injection tasks it spawns.    *)
(*   FairSpec    Spec with the fairness the scheduling gives: the reactor  *)
(*               handles a readable channel, a spawned task runs, a child  *)
(*               that is not stopped goes on.                              *)
(*   BootSpec    the bootloop guard alone: zygote starts and exits, with   *)
(*               the clock read freely at every crash.                     *)
(*   InjectSpec  one injection task (loader::handle_proc) on one stopped   *)
(*               child, with the child's registers and stack words.        *)
(*   ArgsSpec    symbols::ArgCounter fed the demangler's write_string      *)
(*               calls for one mangled name.                               *)
(*   UmountSpec  one run of umount_module_files on one mount table, under  *)
(*               the KernelSU or the Magisk policy.                        *)
(*   RenameSpec  the task_rename tracepoint on one renamed task.           *)
(*   TableSpec   Spec with a second fork, so that a pid is used again.     *)
(*   ForkSpec    one call of fork_daemon with the scrubber as its worker.  *)
(*   SdkSpec     a SpecializeArgs view under every SDK_VERSION.            *)
(*   DenySpec    the RequireUmount arm under both root implementations.    *)
(*   StaleSpec   forks under the zygote pid after the zygote has exited.   *)
(*   CallSpec    one remote call (TraceeWrapper::call) on a stopped        *)
(*               target, with its registers and stack words.               *)
(*   TrampolineSpec  the bridge's trampoline from the return of            *)
(*               SpecializeCommon to the jump out.                         *)
(***************************************************************************)
EXTENDS Integers, Sequences, FiniteSets, TLC

\* ---------------------------------------------------------------- bounds
MaxPid == 1
MaxForks == 1
ChannelCap == 1
MaxZygoteStarts == 1
MaxBootStarts == 4
MaxTime == 7
SpecializeArgs == 10
MaxArity == 2
MaxMounts == 3
MaxSuffix == 2
MaxTableForks == 2
MaxCallArgs == 10
SdkMargin == 2

\* ------------------------------------------------------ program constants
\* monitor.rs: BOOTLOOP_DETECT_DURATION = 5 minutes (the model's clock counts minutes)
BOOTLOOP_DETECT_DURATION == 5
BOOTLOOP_DETECT_THRESHOLD == 3

ChildPids == 1 .. MaxPid
ZygotePid == 100
RootUid == 0
AppUid == 10123

VARIABLES
    \* build
    IS_DEBUG,          \* cfg!(is_debug) of the tracer build
    \* kernel tracer maps
    EVENT_CHANNEL,     \* ring buffer: sequence of submitted records, oldest first
    ZYGOTE_PID,        \* the single-slot array (0 = never written)
    ZYGOTE_CHILDREN,   \* pid -> "absent" | "WaitForAttach" | "WaitForUmount"
    \* the observed processes
    zygote,            \* "down" | "up"
    starts,            \* how often a zygote has been started
    child,             \* pid -> where the child is in its post-fork code
    stopped,           \* pid -> the child is stopped and not yet resumed
    gen,               \* pid -> how many tasks have had this pid
    \* reactor (monitor::main)
    reactor,           \* "running" | "bootloop" (break) | "error" (bail! / ?)
    attached_procs,    \* pid -> 0 (no entry) | generation the stored link is bound to
    uprobe_links,      \* links attached and not detached: <<pid, generation>>
    tracker,           \* BootloopTracker.queue
    now,               \* the monotonic clock, as last read by the reactor
    spawned,           \* pid -> injection tasks spawned and not yet attached
    tracee,            \* pid -> an injection task holds the child attached
    \* history
    emitted,           \* pid -> tags the tracer submitted for the current task
    handled,           \* pid -> tags the reactor handled for the current task
    crashLog,          \* clock readings of all ZygoteCrashed events handled
    attach_calls,      \* the calls of the latest RequireUprobeAttach iteration, in order
    \* one injection task (loader::handle_proc) and its target
    arch,              \* target_arch of the build: "x86_64" | "aarch64"
    filter_fn,         \* BridgeConfig.filter_fn: "none" | "accept" | "reject"
    target_regs,       \* the register file of the target
    target_stack,      \* the target's stack words, by address
    target_alive,      \* the target has not been killed
    bridge_loaded,     \* dlopen of the bridge library has run in the target
    step,              \* where the task is in handle_proc / load_bridge
    backup,            \* handle_proc: `let backup = tracee.regs()?`
    regs,              \* load_bridge: `let mut regs`
    args,              \* load_bridge: `let mut args = Vec::new()`
    hook_args,         \* the copy of args in the target, as the pre hook left it
    ptrace_attached,   \* the target is ptrace-attached to the task
    detach_calls,      \* how often the task has called ptrace::detach
    \* symbols::ArgCounter
    sym,               \* the strings the demangler passes to write_string, in order
    pos,               \* how many of them have been written
    count,             \* ArgCounter.count
    args_count,        \* monitor::main: `let args_count = ArgCounter::count(..)?` (-1: not yet)
    \* one run of umount_module_files(pid) in the forked daemon
    KSU,               \* the environment variable KSU is set
    mount_table,       \* /proc/self/mountinfo of the target's namespace, in mount order
    um_pc,             \* where the run is: "idle" | "start" | "umount" | "resume" | "done"
    um_queue,          \* `mounts.into_iter().rev()`: what is still to be unmounted
    um_calls,          \* the umount2 and kill calls made so far, in order
    \* one task/task_rename event
    new_comm,          \* TaskRenameEvent.new_comm: 16 bytes
    rename_uid,        \* the effective uid of the task that renames itself
    rename_done,       \* the handler has run for the event
    \* one call of fork_daemon from the RequireUmount arm
    fd_daemon,         \* the daemon: "idle" | "call" | "wait" | "returned"
    fd_child,          \* the process of the first fork: "none" | "forked" | "func" | "returned" | "exited"
    fd_grand,          \* the process of the second fork: "none" | "forked" | "exited"
    fd_runner,         \* the process that runs func: "none" | "child" | "grandchild"
    rc_arch,          \* remote call: the architecture of the build
    rc_args,          \* remote call: the arguments (Arg::Numeric, Arg::Slice)
    rc_func,          \* remote call: the address of the function
    rc_return_addr,   \* remote call: the return address chosen for the call
    rc_pc,            \* remote call: position in TraceeWrapper::call
    rc_backup,        \* remote call: TraceeWrapper::call's backup of the registers
    rc_real,          \* remote call: the arguments after the slices were copied
    rc_stop,          \* remote call: how the target stopped, and at which pc
    rc_result,        \* remote call: the Result of TraceeWrapper::call
    t_regs,           \* the target's registers
    t_mem,            \* the target's stack, word by word
    t_alive,          \* the target still exists
    first_insn,       \* the first instruction of SpecializeCommon, stepped at the uprobe
    tp_arch,          \* trampoline: the architecture of the build
    tp_ra,            \* trampoline: the register the compiler picked for `ra`
    ZLB_RETURN_ADDRESS, \* the bridge's static, poked by load_bridge
    tp_state,         \* trampoline: "run", "hook" (inside after_specialize), "out"
    tp_pc,            \* trampoline: the instruction to execute
    tp_sp,            \* trampoline: the stack pointer
    tp_entry_sp,      \* trampoline: the stack pointer at entry
    tp_regs,          \* trampoline: the registers
    tp_stack,         \* trampoline: the stack, word by word
    tp_hook_calls,    \* trampoline: calls of after_specialize
    tp_target,        \* trampoline: where control went at the end
    SDK_VERSION,      \* zygote.rs: ro.build.version.sdk
    sv_user,          \* SpecializeArgs: who builds the view
    sv_pc,            \* SpecializeArgs: position of the user
    sv_view,          \* SpecializeArgs: the slot of every field, NULL for null
    sv_slice,         \* SpecializeArgs: the length as_slice gave
    sv_read           \* SpecializeArgs: the fields dereferenced so far

cpVars == <<IS_DEBUG, EVENT_CHANNEL, ZYGOTE_PID, ZYGOTE_CHILDREN, zygote, starts,
            child, stopped, gen, reactor, attached_procs, uprobe_links, tracker,
            now, spawned, tracee, emitted, handled, crashLog, attach_calls>>

dpVars == <<arch, filter_fn, target_regs, target_stack, target_alive, bridge_loaded,
            step, backup, regs, args, hook_args, ptrace_attached, detach_calls>>

argVars == <<sym, pos, count, args_count>>

umVars == <<KSU, mount_table, um_pc, um_queue, um_calls>>

\* the control plane without the daemon's own state
cpRest == <<IS_DEBUG, EVENT_CHANNEL, ZYGOTE_PID, ZYGOTE_CHILDREN, zygote, starts,
            child, stopped, gen, attached_procs, uprobe_links, tracker,
            now, spawned, tracee, emitted, handled, crashLog, attach_calls>>

rnVars == <<new_comm, rename_uid, rename_done>>

fdVars == <<fd_daemon, fd_child, fd_grand, fd_runner>>

rcVars == <<rc_arch, rc_args, rc_func, rc_return_addr, rc_pc, rc_backup, rc_real,
            rc_stop, rc_result, t_regs, t_mem, t_alive>>

inVars == <<first_insn>>

tpVars == <<tp_arch, tp_ra, ZLB_RETURN_ADDRESS, tp_state, tp_pc, tp_sp, tp_entry_sp,
            tp_regs, tp_stack, tp_hook_calls, tp_target>>

svVars == <<SDK_VERSION, sv_user, sv_pc, sv_view, sv_slice, sv_read>>

vars == <<cpVars, dpVars, argVars, umVars, rnVars, fdVars, rcVars, inVars, tpVars, svVars>>

\* ------------------------------------------------------------ ebpf_common
Event(tag, pid, arg) == [tag |-> tag, pid |-> pid, arg |-> arg]

\* the return address the caller of SpecializeCommon left for child p
ReturnAddrOf(p) == 7000 + p

\* ------------------------------------------------------------ the tracer
\* emit(): reserve + write + submit; false when the ring has no room
CanEmit == Len(EVENT_CHANNEL) < ChannelCap

emit(ev) == IF CanEmit THEN Append(EVENT_CHANNEL, ev) ELSE EVENT_CHANNEL

Note(p, tag) == IF CanEmit /\ p \in ChildPids
                THEN [emitted EXCEPT ![p] = @ \cup {tag}] ELSE emitted

DaemonUp == reactor = "running"

Uid(p) == IF child[p] = "app" THEN AppUid ELSE RootUid

\* variant: the uid of the current task is not looked at
is_root_Any(uid) == TRUE

is_root(uid) == uid = RootUid

RECURSIVE SumTo(_, _)
SumTo(f, n) == IF n = 0 THEN 0 ELSE f[n] + SumTo(f, n - 1)

\* tasks the zygote has forked so far
TotalForks == SumTo(gen, MaxPid)

\* a pid is handed to a new task only when nothing about the old one is in flight
PidFree(p) ==
    /\ child[p] = "dead"
    /\ \A i \in 1 .. Len(EVENT_CHANNEL) : EVENT_CHANNEL[i].pid # p
    /\ spawned[p] = 0 /\ ~tracee[p]

CpInit ==
    /\ IS_DEBUG \in BOOLEAN
    /\ EVENT_CHANNEL = <<>>
    /\ ZYGOTE_PID = 0
    /\ ZYGOTE_CHILDREN = [p \in ChildPids |-> "absent"]
    /\ zygote = "down"
    /\ starts = 0
    /\ child = [p \in ChildPids |-> "dead"]
    /\ stopped = [p \in ChildPids |-> FALSE]
    /\ gen = [p \in ChildPids |-> 0]
    /\ reactor = "running"
    /\ attached_procs = [p \in ChildPids |-> 0]
    /\ uprobe_links = {}
    /\ tracker = <<>>
    /\ now = 0
    /\ spawned = [p \in ChildPids |-> 0]
    /\ tracee = [p \in ChildPids |-> FALSE]
    /\ emitted = [p \in ChildPids |-> {}]
    /\ handled = [p \in ChildPids |-> {}]
    /\ crashLog = <<>>
    /\ attach_calls = <<>>

\* HashMap::insert(key, value, flags)
map_insert(m, k, v, flags) ==
    CASE flags = "BPF_ANY" -> [m EXCEPT ![k] = v]
      [] flags = "BPF_EXIST" -> IF m[k] # "absent" THEN [m EXCEPT ![k] = v] ELSE m
      [] flags = "BPF_NOEXIST" -> IF m[k] = "absent" THEN [m EXCEPT ![k] = v] ELSE m

\* variant: the entry of a task stays in the table
map_remove_Keep(m, k) == m

\* HashMap::remove(key)
map_remove(m, k) == [m EXCEPT ![k] = "absent"]

\* task/task_rename by a root task that becomes zygote64
ZygoteRename(limit) ==
    /\ DaemonUp
    /\ zygote = "down" /\ starts < limit
    /\ zygote' = "up"
    /\ starts' = starts + 1
    /\ EVENT_CHANNEL' = emit(Event("ZygoteStarted", ZygotePid, 0))
    /\ ZYGOTE_PID' = ZygotePid
    /\ UNCHANGED <<IS_DEBUG, ZYGOTE_CHILDREN, child, stopped, gen, reactor,
                   attached_procs, uprobe_links, tracker, now, spawned, tracee,
                   emitted, handled, crashLog, attach_calls>>
    /\ UNCHANGED <<dpVars, argVars, umVars, rnVars, fdVars, rcVars, inVars, tpVars, svVars>>

handle_task_task_rename == ZygoteRename(MaxZygoteStarts)

\* task/task_newtask: the zygote forks child p (CLONE_THREAD clear); the insert is
\* made with BPF_ANY
\* the forking task is the root task whose pid is ZygotePid: the zygote while it
\* is up (owner = "up"), or a later root task that was given the pid of the dead
\* zygote (owner = "down")
ForkByPid(p, limit, owner) ==
    /\ DaemonUp
    /\ zygote = owner /\ ZYGOTE_PID = ZygotePid
    /\ PidFree(p) /\ TotalForks < limit
    /\ child' = [child EXCEPT ![p] = "forked"]
    /\ stopped' = [stopped EXCEPT ![p] = FALSE]
    /\ gen' = [gen EXCEPT ![p] = @ + 1]
    /\ EVENT_CHANNEL' = emit(Event("ZygoteForked", p, 0))
    /\ emitted' = [emitted EXCEPT ![p] = IF CanEmit THEN {"ZygoteForked"} ELSE {}]
    /\ handled' = [handled EXCEPT ![p] = {}]
    /\ ZYGOTE_CHILDREN' = map_insert(ZYGOTE_CHILDREN, p, "WaitForAttach", "BPF_ANY")
    /\ UNCHANGED <<IS_DEBUG, ZYGOTE_PID, zygote, starts, reactor, attached_procs,
                   uprobe_links, tracker, now, spawned, tracee, crashLog,
                   attach_calls>>
    /\ UNCHANGED <<dpVars, argVars, umVars, rnVars, fdVars, rcVars, inVars, tpVars, svVars>>

ZygoteFork(p, limit) == ForkByPid(p, limit, "up")

handle_task_task_newtask(p) == ZygoteFork(p, MaxForks)

\* sched_process_exit: no statement of the handler writes ZYGOTE_PID
CellAfterExit_Cleared(cell) == 0
CellAfterExit(cell) == cell

\* sched/sched_process_exit of the zygote
ZygoteExit ==
    /\ DaemonUp
    /\ zygote = "up"
    /\ zygote' = "down"
    /\ EVENT_CHANNEL' = IF ZYGOTE_PID = ZygotePid
                        THEN emit(Event("ZygoteCrashed", ZygotePid, 0))
                        ELSE EVENT_CHANNEL
    /\ ZYGOTE_PID' = CellAfterExit(ZYGOTE_PID)
    /\ UNCHANGED <<IS_DEBUG, ZYGOTE_CHILDREN, starts, child, stopped, gen,
                   reactor, attached_procs, uprobe_links, tracker, now, spawned,
                   tracee, emitted, handled, crashLog, attach_calls>>
    /\ UNCHANGED <<dpVars, argVars, umVars, rnVars, fdVars, rcVars, inVars, tpVars, svVars>>

\* sched/sched_process_exit of child p (it may be killed while stopped)
ChildExit(p) ==
    /\ DaemonUp
    /\ child[p] # "dead"
    /\ child' = [child EXCEPT ![p] = "dead"]
    /\ stopped' = [stopped EXCEPT ![p] = FALSE]
    /\ ZYGOTE_CHILDREN' = map_remove(ZYGOTE_CHILDREN, p)
    /\ UNCHANGED <<IS_DEBUG, EVENT_CHANNEL, ZYGOTE_PID, zygote, starts, gen, reactor,
                   attached_procs, uprobe_links, tracker, now, spawned, tracee,
                   emitted, handled, crashLog, attach_calls>>
    /\ UNCHANGED <<dpVars, argVars, umVars, rnVars, fdVars, rcVars, inVars, tpVars, svVars>>

Running(p) == child[p] # "dead" /\ ~stopped[p] /\ ~tracee[p]

\* variant: any child still in the table is taken for one that waits for its attach
NeedsAttach_AnyState(p) == ZYGOTE_CHILDREN[p] # "absent"

\* sys_enter: `ZYGOTE_CHILDREN.get(&current_pid) == Some(&WaitForAttach)`
NeedsAttach(p) == ZYGOTE_CHILDREN[p] = "WaitForAttach"

\* sys_exit: `ZYGOTE_CHILDREN.get(&current_pid) == Some(&WaitForUmount)`
NeedsUmount(p) == ZYGOTE_CHILDREN[p] = "WaitForUmount"

\* raw_syscalls/sys_enter: child p enters rt_sigprocmask(SIG_UNBLOCK, ..)
handle_raw_syscalls_sys_enter(p) ==
    /\ DaemonUp
    /\ Running(p)
    /\ child' = [child EXCEPT ![p] = IF @ = "forked" THEN "unblocked" ELSE @]
    /\ IF is_root(Uid(p)) /\ NeedsAttach(p)
       THEN /\ ZYGOTE_CHILDREN' = map_insert(ZYGOTE_CHILDREN, p, "WaitForUmount",
                                             "BPF_EXIST")
            /\ EVENT_CHANNEL' = emit(Event("RequireUprobeAttach", p, 0))
            /\ emitted' = Note(p, "RequireUprobeAttach")
            \* stop_current(); resume_current() only under `!emit(..) && IS_DEBUG`
            /\ stopped' = [stopped EXCEPT ![p] = ~(~CanEmit /\ IS_DEBUG)]
       ELSE UNCHANGED <<ZYGOTE_CHILDREN, EVENT_CHANNEL, emitted, stopped>>
    /\ UNCHANGED <<IS_DEBUG, ZYGOTE_PID, zygote, starts, gen, reactor, attached_procs,
                   uprobe_links, tracker, now, spawned, tracee, handled, crashLog,
                   attach_calls>>
    /\ UNCHANGED <<dpVars, argVars, umVars, rnVars, fdVars, rcVars, inVars, tpVars, svVars>>

\* the uprobe at SpecializeCommon: runs only when a link is attached to this task
handle_specialize_common(p) ==
    /\ DaemonUp
    /\ Running(p) /\ child[p] = "unblocked"
    /\ child' = [child EXCEPT ![p] = "specialize"]
    \* try_run: `ctx.arg(..)?` and the read of the return address may give None
    /\ \E readOk \in {TRUE, FALSE} :
          IF <<p, gen[p]>> \in uprobe_links /\ readOk
          THEN /\ EVENT_CHANNEL' = emit(Event("RequireInject", p, ReturnAddrOf(p)))
               /\ emitted' = Note(p, "RequireInject")
               /\ stopped' = [stopped EXCEPT ![p] = ~(~CanEmit /\ IS_DEBUG)]
          ELSE UNCHANGED <<EVENT_CHANNEL, emitted, stopped>>
    /\ UNCHANGED <<IS_DEBUG, ZYGOTE_PID, ZYGOTE_CHILDREN, zygote, starts, gen, reactor,
                   attached_procs, uprobe_links, tracker, now, spawned, tracee,
                   handled, crashLog, attach_calls>>
    /\ UNCHANGED <<dpVars, argVars, umVars, rnVars, fdVars, rcVars, inVars, tpVars, svVars>>

\* raw_syscalls/sys_exit: child p leaves a successful unshare
handle_raw_syscalls_sys_exit(p) ==
    /\ DaemonUp
    /\ Running(p) /\ child[p] \in {"specialize", "unshared", "app"}
    /\ child' = [child EXCEPT ![p] = IF @ = "app" THEN "app" ELSE "unshared"]
    /\ IF is_root(Uid(p)) /\ NeedsUmount(p)
       THEN /\ EVENT_CHANNEL' = emit(Event("RequireUmount", p, Uid(p)))
            /\ emitted' = Note(p, "RequireUmount")
            /\ stopped' = [stopped EXCEPT ![p] = ~(~CanEmit /\ IS_DEBUG)]
            /\ ZYGOTE_CHILDREN' = map_remove(ZYGOTE_CHILDREN, p)
       ELSE UNCHANGED <<EVENT_CHANNEL, emitted, stopped, ZYGOTE_CHILDREN>>
    /\ UNCHANGED <<IS_DEBUG, ZYGOTE_PID, zygote, starts, gen, reactor, attached_procs,
                   uprobe_links, tracker, now, spawned, tracee, handled, crashLog,
                   attach_calls>>
    /\ UNCHANGED <<dpVars, argVars, umVars, rnVars, fdVars, rcVars, inVars, tpVars, svVars>>

\* the child drops root (setresuid) with or without having unshared
ChildSetuid(p) ==
    /\ DaemonUp
    /\ Running(p) /\ child[p] \in {"specialize", "unshared"}
    /\ child' = [child EXCEPT ![p] = "app"]
    /\ UNCHANGED <<IS_DEBUG, EVENT_CHANNEL, ZYGOTE_PID, ZYGOTE_CHILDREN, zygote,
                   starts, stopped, gen, reactor, attached_procs, uprobe_links,
                   tracker, now, spawned, tracee, emitted, handled, crashLog,
                   attach_calls>>
    /\ UNCHANGED <<dpVars, argVars, umVars, rnVars, fdVars, rcVars, inVars, tpVars, svVars>>

\* ------------------------------------------- the tracer: strcmp16 and comm
NUL == "\\0"

\* `const ZYGOTE_NAME: &[u8] = b"zygote64"`: eight bytes, no terminator
ZYGOTE_NAME == <<"z", "y", "g", "o", "t", "e", "6", "4">>

\* TASK_COMM_LEN bytes: the name and NUL up to the end
CommOf(name) == [i \in 1 .. 16 |-> IF i <= Len(name) THEN name[i] ELSE NUL]

\* the names a task gives itself: a prefix of zygote64, then up to MaxSuffix bytes
Suffixes == UNION {[1 .. n -> {"_", "x"}] : n \in 0 .. MaxSuffix}

Names == {SubSeq(ZYGOTE_NAME, 1, k) \o x : k \in 0 .. Len(ZYGOTE_NAME), x \in Suffixes}

\* strcmp16: `length = cmp::min(str1.len(), str2.len())`, and for i in 0 .. 16
\* `if i >= length { return is_same }`, `if str1[i] != str2[i] { is_same = false }`
strcmp16(str1, str2) ==
    LET length == IF Len(str1) < Len(str2) THEN Len(str1) ELSE Len(str2)
    IN  \A i \in 1 .. 16 : i <= length => str1[i] = str2[i]

RnIdle == new_comm = CommOf(<<>>) /\ rename_uid = RootUid /\ rename_done = TRUE

RnInit ==
    /\ new_comm \in {CommOf(n) : n \in Names}
    /\ rename_uid \in {RootUid, AppUid}
    /\ rename_done = FALSE

\* handle_task_task_rename for the event: task ZygotePid has set its comm to new_comm
task_rename ==
    /\ ~rename_done
    /\ rename_done' = TRUE
    /\ IF is_root(rename_uid) /\ strcmp16(new_comm, ZYGOTE_NAME)
       THEN /\ EVENT_CHANNEL' = emit(Event("ZygoteStarted", ZygotePid, 0))
            /\ ZYGOTE_PID' = ZygotePid
       ELSE UNCHANGED <<EVENT_CHANNEL, ZYGOTE_PID>>
    /\ UNCHANGED <<new_comm, rename_uid>>
    /\ UNCHANGED <<IS_DEBUG, ZYGOTE_CHILDREN, zygote, starts, child, stopped, gen,
                   reactor, attached_procs, uprobe_links, tracker, now, spawned,
                   tracee, emitted, handled, crashLog, attach_calls>>
    /\ UNCHANGED <<dpVars, argVars, umVars, fdVars, rcVars, inVars, tpVars, svVars>>

\* ------------------------------------------------- BootloopTracker (monitor.rs)
RECURSIVE PurgeFront_Strict(_, _)
\* variant: a timestamp of age exactly the window is kept
PurgeFront_Strict(q, t) ==
    IF q # <<>> /\ Head(q) + BOOTLOOP_DETECT_DURATION < t
    THEN PurgeFront_Strict(Tail(q), t)
    ELSE q

RECURSIVE PurgeFront(_, _)
\* the `while let Some(time) = self.queue.front()` loop
PurgeFront(q, t) ==
    IF q # <<>> /\ Head(q) + BOOTLOOP_DETECT_DURATION <= t
    THEN PurgeFront(Tail(q), t)
    ELSE q

\* variant: the threshold has to be exceeded
zygote_crashed_Exceeds(q, t) ==
    LET q2 == Append(PurgeFront(q, t), t)
    IN  [queue |-> q2, over |-> Len(q2) > BOOTLOOP_DETECT_THRESHOLD]

\* BootloopTracker::zygote_crashed with Instant::now() = t: the queue left, and the result
zygote_crashed(q, t) ==
    LET q2 == Append(PurgeFront(q, t), t)
    IN  [queue |-> q2, over |-> Len(q2) >= BOOTLOOP_DETECT_THRESHOLD]

\* RootImpl::current(): KernelSU when the environment has KSU, else Magisk
RootImpl_current == IF KSU THEN "KernelSU" ELSE "Magisk"

\* variant: every uid is on the denylist
denylist_check_All(uid) == TRUE

\* denylist::check: `match RootImpl::current()` with two empty arms, then `false`
denylist_check(uid) ==
    CASE RootImpl_current = "Magisk" -> FALSE
      [] RootImpl_current = "KernelSU" -> FALSE

\* ------------------------------------------------------ reactor (monitor::main)
Alive(p) == child[p] # "dead"

\* a call the reactor makes for a child, and how it ended
Call(op, pid, res) == [op |-> op, pid |-> pid, res |-> res]

Called(calls, op, res) == \E i \in 1 .. Len(calls) : calls[i].op = op /\ calls[i].res = res

\* variant: the SIGCONT is part of the arm and is not reached when the attach fails
resume_later_InArm(pid, attachOk, killRes) ==
    IF attachOk
    THEN <<Call("attach", pid, "ok"), Call("kill", pid, killRes)>>
    ELSE <<Call("attach", pid, "err")>>

\* the RequireUprobeAttach arm with `resume_later!(pid)`: resume_pid is set before
\* `uprobe.attach(..)?`, and kill(resume_pid, SIGCONT) follows the try block
resume_later(pid, attachOk, killRes) ==
    <<Call("attach", pid, IF attachOk THEN "ok" ELSE "err"), Call("kill", pid, killRes)>>

\* variant: a task is spawned for the record and one more for the link it detached
task_spawn_PerLink(tasks, pid) ==
    [tasks EXCEPT ![pid] = @ + (IF attached_procs[pid] # 0 THEN 2 ELSE 1)]

\* `task::spawn(async move { loader::handle_proc(pid, &config) .. })`
task_spawn(tasks, pid) == [tasks EXCEPT ![pid] = @ + 1]

\* one iteration of the loop: the record at the head of the ring, its match arm,
\* and the deferred SIGCONT
ReactorIter(t) ==
    /\ reactor = "running"
    /\ EVENT_CHANNEL # <<>>
    /\ LET ev == Head(EVENT_CHANNEL)
           pid == ev.pid
       IN
       /\ EVENT_CHANNEL' = Tail(EVENT_CHANNEL)
       /\ handled' = IF pid \in ChildPids
                     THEN [handled EXCEPT ![pid] = @ \cup {ev.tag}] ELSE handled
       /\ CASE ev.tag \in {"ZygoteStarted", "ZygoteForked"} ->
                 /\ UNCHANGED <<reactor, attached_procs, uprobe_links, tracker, now,
                                spawned, stopped, crashLog, attach_calls>>
            [] ev.tag = "ZygoteCrashed" ->
                    LET r == zygote_crashed(tracker, t) IN
                    /\ now' = t
                    /\ tracker' = r.queue
                    /\ crashLog' = Append(crashLog, t)
                    /\ reactor' = IF r.over THEN "bootloop" ELSE "running"
                    /\ UNCHANGED <<attached_procs, uprobe_links, spawned, stopped,
                                   attach_calls>>
            [] ev.tag = "RequireUprobeAttach" ->
                 \E attachOk \in {TRUE, FALSE}, killRes \in {"ok", "ESRCH", "EPERM"} :
                    /\ attachOk => Alive(pid)
                    /\ (killRes = "ESRCH") <=> ~Alive(pid)
                    \* uprobe.attach(None, func_addr, uprobe_lib, Some(pid))?
                    /\ IF attachOk
                       THEN /\ uprobe_links' = uprobe_links \cup {<<pid, gen[pid]>>}
                            /\ attached_procs' = [attached_procs EXCEPT ![pid] = gen[pid]]
                       ELSE UNCHANGED <<uprobe_links, attached_procs>>
                    \* resume_pid = pid: kill(pid, SIGCONT); ESRCH => continue, else bail!
                    /\ attach_calls' = resume_later(pid, attachOk, killRes)
                    /\ stopped' = IF Called(attach_calls', "kill", "ok")
                                  THEN [stopped EXCEPT ![pid] = FALSE] ELSE stopped
                    /\ reactor' = IF Called(attach_calls', "kill", "EPERM")
                                  THEN "error" ELSE "running"
                    /\ UNCHANGED <<tracker, now, spawned, crashLog>>
            [] ev.tag = "RequireInject" ->
                 \E detachOk \in {TRUE, FALSE} :
                    /\ (attached_procs[pid] = 0) => detachOk
                    \* attached_procs.remove(&pid), then uprobe.detach(link_id)?
                    /\ attached_procs' = [attached_procs EXCEPT ![pid] = 0]
                    /\ uprobe_links' = IF attached_procs[pid] # 0 /\ detachOk
                                       THEN uprobe_links \ {<<pid, attached_procs[pid]>>}
                                       ELSE uprobe_links
                    \* task::spawn(handle_proc(pid, &config)) unless `?` left the arm
                    /\ spawned' = IF detachOk THEN task_spawn(spawned, pid) ELSE spawned
                    /\ UNCHANGED <<reactor, tracker, now, stopped, crashLog, attach_calls>>
            [] ev.tag = "RequireUmount" ->
                 \* fork_daemon(umount_module_files(pid)) only if denylist::check(uid);
                 \* umount_module_files ends with kill(pid, SIGCONT)
                 /\ stopped' = IF denylist_check(ev.arg)
                               THEN [stopped EXCEPT ![pid] = FALSE] ELSE stopped
                 /\ UNCHANGED <<reactor, attached_procs, uprobe_links, tracker, now,
                                spawned, crashLog, attach_calls>>
       \* fork_daemon is called in the RequireUmount arm alone, and has returned
       \* when the arm ends
       /\ fd_daemon' = IF ev.tag = "RequireUmount" /\ denylist_check(ev.arg)
                        THEN "returned" ELSE fd_daemon
    /\ UNCHANGED <<IS_DEBUG, ZYGOTE_PID, ZYGOTE_CHILDREN, zygote, starts, child, gen,
                   tracee, emitted, fd_child, fd_grand, fd_runner>>
    /\ UNCHANGED <<dpVars, argVars, umVars, rnVars, rcVars, inVars, tpVars, svVars>>

\* in Spec the clock is read either unchanged or one whole window later
CoarseClock == {now} \cup {t \in {now + BOOTLOOP_DETECT_DURATION} : t <= MaxTime}

ReactorStep == \E t \in CoarseClock : ReactorIter(t)

\* --------------------------------------- injection task (loader::handle_proc)
\* Tracee::new + attach(): any failure ends the task, whose Drop cannot detach
TaskAttach(p) ==
    /\ DaemonUp
    /\ spawned[p] > 0
    /\ spawned' = [spawned EXCEPT ![p] = @ - 1]
    /\ \E ok \in {TRUE, FALSE} :
          /\ ok => (Alive(p) /\ ~tracee[p])
          /\ tracee' = IF ok THEN [tracee EXCEPT ![p] = TRUE] ELSE tracee
    /\ UNCHANGED <<IS_DEBUG, EVENT_CHANNEL, ZYGOTE_PID, ZYGOTE_CHILDREN, zygote,
                   starts, child, stopped, gen, reactor, attached_procs, uprobe_links,
                   tracker, now, emitted, handled, crashLog, attach_calls>>
    /\ UNCHANGED <<dpVars, argVars, umVars, rnVars, fdVars, rcVars, inVars, tpVars, svVars>>

\* load_bridge, the restore on error, and Drop for Tracee: ptrace::detach resumes;
\* a debug build that sees the child stop on SIGSTOP in a remote call detaches with
\* SIGSTOP and exits the daemon (Tracee::wait)
TaskFinish(p) ==
    /\ DaemonUp
    /\ tracee[p]
    /\ tracee' = [tracee EXCEPT ![p] = FALSE]
    /\ \E dbg \in {TRUE, FALSE} :
          /\ dbg => (IS_DEBUG /\ Alive(p))
          /\ stopped' = [stopped EXCEPT ![p] = dbg]
          /\ reactor' = IF dbg THEN "exited" ELSE reactor
    /\ UNCHANGED <<IS_DEBUG, EVENT_CHANNEL, ZYGOTE_PID, ZYGOTE_CHILDREN, zygote,
                   starts, child, gen, attached_procs, uprobe_links, tracker, now,
                   spawned, emitted, handled, crashLog, attach_calls>>
    /\ UNCHANGED <<dpVars, argVars, umVars, rnVars, fdVars, rcVars, inVars, tpVars, svVars>>

\* ------------------------------------------- main.rs: the daemon's exit status
\* monitor::main: `break` out of the loop on a bootloop and `Ok(())` after it,
\* `bail!(err)` when a deferred SIGCONT fails; Tracee::wait: process::exit(0)
main_result ==
    CASE reactor = "bootloop" -> "Ok"
      [] reactor = "error" -> "Err"
      [] reactor = "exited" -> "exit(0)"
      [] OTHER -> "running"

\* main: `monitor::main(&bridge).await?; Ok(())`; a main that returns Ok ends the
\* process with status 0 and one that returns Err with status 1
exit_status(res) ==
    CASE res = "Ok" -> 0
      [] res = "Err" -> 1
      [] res = "exit(0)" -> 0
      [] OTHER -> -1

\* ---------------------------------------------- loader.rs: Registers, Tracee
\* the target is stopped by the uprobe on the first instruction of SpecializeCommon,
\* after that instruction (`push %rbp` / `paciasp`) has been stepped
EntryPc == 5000
EntrySp == 2000
CallerReturnAddr == 7000
Trampoline == 9000

ArgRegs == 0 .. 7
ArgIndex == 0 .. SpecializeArgs - 1
StackAddrs == {EntrySp + 8 * k : k \in -1 .. SpecializeArgs}

\* arch_select!(6, 8)
args_on_regs == IF arch = "x86_64" THEN 6 ELSE 8

RegsAtUprobe(a) ==
    [pc    |-> IF a = "x86_64" THEN EntryPc + 1 ELSE EntryPc + 4,
     sp    |-> IF a = "x86_64" THEN EntrySp - 8 ELSE EntrySp,
     lr    |-> IF a = "x86_64" THEN 0 ELSE CallerReturnAddr,
     arg   |-> [i \in ArgRegs |-> 10 + i],
     other |-> 77]

StackAtUprobe(a) ==
    [x \in StackAddrs |->
        IF a = "x86_64" /\ x = EntrySp THEN CallerReturnAddr ELSE 3000 + x]

\* the register file of a target that is somewhere inside a remote call
Clobbered == [pc |-> 0, sp |-> 0, lr |-> 0, arg |-> [i \in ArgRegs |-> 0], other |-> 0]

\* Registers::set_pc / set_sp
set_pc(r, v) == [r EXCEPT !.pc = v]

set_sp(r, v) == [r EXCEPT !.sp = v]

\* load_bridge: `if cfg!(target_arch = "x86_64")`: revert `push %rbp`
RevertPush(r) == IF arch = "x86_64" THEN set_sp(set_pc(r, r.pc - 1), r.sp + 8) ELSE r

\* load_bridge: `if cfg!(target_arch = "aarch64")`: revert `paciasp`
RevertPaciasp(r) == IF arch = "aarch64" THEN set_pc(r, r.pc - 4) ELSE r

\* Tracee::arg: the address peeked for argument n that is not in a register
ArgPeekAddr(r, n) ==
    IF arch = "x86_64" THEN r.sp + 8 * (n - 6) + 8 ELSE r.sp + 8 * (n - 8)

\* Tracee::arg
TraceeArg(r, stack, n) ==
    IF n < args_on_regs THEN r.arg[n] ELSE stack[ArgPeekAddr(r, n)]

\* Tracee::set_arg: the address poked for argument n that is not in a register
ArgPokeAddr(r, n) == r.sp + 8 * (n - args_on_regs)

\* variant: the arguments are written back without stepping over the return address
WriteBackStack_NoSkip(r, stack, a) ==
    LET Slot(x) == {n \in ArgIndex : n >= args_on_regs /\ ArgPokeAddr(r, n) = x}
    IN  [x \in StackAddrs |->
            IF Slot(x) # {} THEN a[CHOOSE n \in Slot(x) : TRUE] ELSE stack[x]]

\* load_bridge "update args": sp + 8 on x86_64, set_arg for every argument, sp - 8
WriteBackRegs(r, a) ==
    [r EXCEPT !.arg = [i \in ArgRegs |->
                          IF i < args_on_regs /\ i \in ArgIndex THEN a[i] ELSE @[i]]]

\* variant: set_arg is used on the sp that points at the return address
SkipReturnAddr_None(r) == r

\* "skip return address (*)": `regs.set_sp(regs.sp() + 0x8)` on x86_64
SkipReturnAddr(r) == IF arch = "x86_64" THEN set_sp(r, r.sp + 8) ELSE r

WriteBackStack(r, stack, a) ==
    LET r2 == SkipReturnAddr(r)
        Slot(x) == {n \in ArgIndex : n >= args_on_regs /\ ArgPokeAddr(r2, n) = x}
    IN  [x \in StackAddrs |->
            IF Slot(x) # {} THEN a[CHOOSE n \in Slot(x) : TRUE] ELSE stack[x]]

\* Tracee::set_return_addr(regs, addr, alloc = false)
ReturnAddrRegs(r, addr) == IF arch = "aarch64" THEN [r EXCEPT !.lr = addr] ELSE r

ReturnAddrStack(r, stack, addr) ==
    IF arch = "x86_64" THEN [stack EXCEPT ![r.sp] = addr] ELSE stack

\* variant: a remote call leaves the registers the called function ended with
AfterCall_NoRestore(before) == Clobbered

\* variant: an error leaves the registers as they are
RestoreOnError_None(current, snapshot) == current

\* TraceeWrapper::call and Tracee::call: the target runs the remote function and
\* both layers write the registers they were given back (`tracee.set_regs(&backup)?`)
AfterCall(before) == before

\* handle_proc: `if let Err(err) = res { tracee.set_regs(&backup)?; .. }`
RestoreOnError(current, snapshot) == snapshot

\* ------------------------------------- loader.rs: handle_proc and load_bridge
\* how the remote calls of one step end: all return to the given address; one fails
\* with the target alive (wrong return address, dlopen gave 0, a lookup failed, the
\* target stopped on another signal); the target stopped on SIGSTOP
Outcomes == {"ok", "err", "sigstop"}

\* Tracee::wait, `if cfg!(debug_assertions)`, on Stopped(_, SIGSTOP):
\* ptrace::detach(pid, SIGSTOP) and process::exit(0)
DebugExit(out) == out = "sigstop" /\ IS_DEBUG /\ target_alive

\* a step that does not go on: the registers the target is left with, the task's end
Ended(out) ==
    IF DebugExit(out)
    THEN [r |-> Clobbered, s |-> "exited", d |-> "exited"]
    ELSE [r |-> IF target_alive THEN RestoreOnError(target_regs, backup) ELSE target_regs,
          s |-> "failed", d |-> reactor]

\* what the pre hook may leave in its copy of the arguments
HookResults(a) == {a, [a EXCEPT ![0] = 99], [a EXCEPT ![SpecializeArgs - 1] = 99]}

NoArgs == [n \in ArgIndex |-> 0]

\* the task has returned from handle_proc, or has left through process::exit
TaskEnded(s) == s \in {"unattached", "failed", "skipped", "injected", "exited"}

\* variant: the detach is the last statement of handle_proc, not a destructor
DetachOnEnd_LastStatement(s) == IF s \in {"skipped", "injected"} THEN 1 ELSE 0

\* the ptrace::detach calls of a task that ends in s: `impl Drop for Tracee` runs
\* when `tracee` goes out of scope on any return of handle_proc; process::exit runs
\* no destructor, and Tracee::wait calls ptrace::detach(pid, SIGSTOP) before it
DetachOnEnd(s) == IF TaskEnded(s) THEN 1 ELSE 0

\* the end of the tracee's scope. The target is in a ptrace-stop whenever the task
\* returns (every wait for it has returned), so a detach of a live target succeeds
Release(held) ==
    /\ detach_calls' = detach_calls + DetachOnEnd(step')
    /\ ptrace_attached' = IF DetachOnEnd(step') > 0 THEN FALSE ELSE held

DpIdle ==
    /\ arch = "x86_64" /\ filter_fn = "none"
    /\ target_regs = Clobbered /\ target_stack = StackAtUprobe("x86_64")
    /\ target_alive = FALSE /\ bridge_loaded = FALSE /\ step = "idle"
    /\ backup = Clobbered /\ regs = Clobbered /\ args = NoArgs /\ hook_args = NoArgs
    /\ ptrace_attached = FALSE /\ detach_calls = 0

\* the instruction the uprobe sits on: `push %rbp` in the x86_64 build; in the
\* aarch64 build `paciasp`, or another one-word instruction that leaves sp and x30
\* alone when the library was built without pointer authentication
FirstInsns(a) == IF a = "x86_64" THEN {"push %rbp"} ELSE {"paciasp", "other"}

InIdle == first_insn = "none"

InInit == first_insn \in FirstInsns(arch)

DpInit ==
    /\ arch \in {"x86_64", "aarch64"}
    /\ filter_fn \in {"none", "accept", "reject"}
    /\ target_regs = RegsAtUprobe(arch) /\ target_stack = StackAtUprobe(arch)
    /\ target_alive = TRUE /\ bridge_loaded = FALSE /\ step = "spawned"
    /\ backup = Clobbered /\ regs = Clobbered /\ args = NoArgs /\ hook_args = NoArgs
    /\ ptrace_attached = FALSE /\ detach_calls = 0

\* handle_proc: Tracee::new(pid), tracee.attach()?, `let backup = tracee.regs()?`;
\* attach() can fail before ptrace::attach took hold of the target or after it
handle_proc_attach ==
    /\ step = "spawned"
    /\ \E ok \in {TRUE, FALSE}, seized \in {TRUE, FALSE} :
          /\ ok => seized
          /\ seized => target_alive
          /\ backup' = IF ok THEN target_regs ELSE backup
          /\ step' = IF ok THEN "attached" ELSE "unattached"
          /\ Release(seized)
    /\ UNCHANGED <<arch, filter_fn, target_regs, target_stack, target_alive,
                   bridge_loaded, regs, args, hook_args, reactor>>
    /\ UNCHANGED <<cpRest, argVars, umVars, rnVars, fdVars, rcVars, inVars, tpVars, svVars>>

\* load_bridge up to "retrieve args": regs(), the x86_64 correction, set_regs,
\* TraceeWrapper::new, unmap_uprobes (a remote munmap), tracee.arg for each argument
load_bridge_prepare ==
    /\ step = "attached"
    /\ \E out \in Outcomes :
          LET r == RevertPush(target_regs) IN
          IF target_alive /\ out = "ok"
          THEN /\ regs' = r
               /\ target_regs' = AfterCall(r)
               /\ args' = [n \in ArgIndex |-> TraceeArg(r, target_stack, n)]
               /\ step' = "prepared"
               /\ UNCHANGED reactor
          ELSE /\ target_regs' = Ended(out).r
               /\ step' = Ended(out).s
               /\ reactor' = Ended(out).d
               /\ UNCHANGED <<regs, args>>
    /\ Release(ptrace_attached)
    /\ UNCHANGED <<arch, filter_fn, target_stack, target_alive, bridge_loaded, backup,
                   hook_args>>
    /\ UNCHANGED <<cpRest, argVars, umVars, rnVars, fdVars, rcVars, inVars, tpVars, svVars>>

\* check_process: read_jstring (remote GetStringUTFChars / ReleaseStringUTFChars),
\* then the filter; `return Ok(())` from load_bridge when it says false
check_process ==
    /\ step = "prepared"
    /\ \E out \in Outcomes :
          IF target_alive /\ out = "ok"
          THEN /\ target_regs' = AfterCall(target_regs)
               /\ step' = IF filter_fn = "reject" THEN "skipped" ELSE "checked"
               /\ UNCHANGED reactor
          ELSE /\ target_regs' = Ended(out).r
               /\ step' = Ended(out).s
               /\ reactor' = Ended(out).d
    /\ Release(ptrace_attached)
    /\ UNCHANGED <<arch, filter_fn, target_stack, target_alive, bridge_loaded, backup,
                   regs, args, hook_args>>
    /\ UNCHANGED <<cpRest, argVars, umVars, rnVars, fdVars, rcVars, inVars, tpVars, svVars>>

\* load_bridge from the aarch64 correction to the poke of ZLB_RETURN_ADDRESS:
\* set_regs, remote_dlopen (dlopen, dlerror when it gave 0), the symbol lookups
remote_dlopen ==
    /\ step = "checked"
    /\ \E out \in Outcomes, opened \in {TRUE, FALSE} :
          LET r == RevertPaciasp(regs) IN
          IF target_alive /\ out = "ok"
          THEN /\ regs' = r
               /\ target_regs' = AfterCall(r)
               /\ bridge_loaded' = TRUE
               /\ step' = "loaded"
               /\ UNCHANGED reactor
          ELSE /\ opened => target_alive
               /\ bridge_loaded' = opened
               /\ target_regs' = Ended(out).r
               /\ step' = Ended(out).s
               /\ reactor' = Ended(out).d
               /\ UNCHANGED regs
    /\ Release(ptrace_attached)
    /\ UNCHANGED <<arch, filter_fn, target_stack, target_alive, backup, args, hook_args>>
    /\ UNCHANGED <<cpRest, argVars, umVars, rnVars, fdVars, rcVars, inVars, tpVars, svVars>>

\* load_bridge: `wrapper.call(callback_before, args!(args_data, args.len()), None)?`
call_pre_hook ==
    /\ step = "loaded"
    /\ \E out \in Outcomes, h \in HookResults(args) :
          /\ hook_args' = IF target_alive THEN h ELSE hook_args
          /\ IF target_alive /\ out = "ok"
             THEN /\ target_regs' = AfterCall(target_regs)
                  /\ step' = "hooked"
                  /\ UNCHANGED reactor
             ELSE /\ target_regs' = Ended(out).r
                  /\ step' = Ended(out).s
                  /\ reactor' = Ended(out).d
    /\ Release(ptrace_attached)
    /\ UNCHANGED <<arch, filter_fn, target_stack, target_alive, bridge_loaded, backup,
                   regs, args>>
    /\ UNCHANGED <<cpRest, argVars, umVars, rnVars, fdVars, rcVars, inVars, tpVars, svVars>>

\* load_bridge: "update args", set_return_addr(&mut regs, trampoline, false), set_regs
load_bridge_commit ==
    /\ step = "hooked"
    /\ IF target_alive
       THEN /\ regs' = ReturnAddrRegs(WriteBackRegs(regs, args), Trampoline)
            /\ target_stack' = ReturnAddrStack(regs,
                                   WriteBackStack(regs, target_stack, args), Trampoline)
            /\ target_regs' = regs'
            /\ step' = "injected"
       ELSE /\ step' = "failed"
            /\ UNCHANGED <<regs, target_stack, target_regs>>
    /\ Release(ptrace_attached)
    /\ UNCHANGED <<arch, filter_fn, target_alive, bridge_loaded, backup, args, hook_args,
                   reactor>>
    /\ UNCHANGED <<cpRest, argVars, umVars, rnVars, fdVars, rcVars, inVars, tpVars, svVars>>

\* the target is killed while the task works on it
TargetKilled ==
    /\ step \in {"spawned", "attached", "prepared", "checked", "loaded", "hooked"}
    /\ target_alive
    /\ target_alive' = FALSE
    /\ UNCHANGED <<arch, filter_fn, target_regs, target_stack, bridge_loaded, step,
                   backup, regs, args, hook_args, reactor, ptrace_attached,
                   detach_calls>>
    /\ UNCHANGED <<cpRest, argVars, umVars, rnVars, fdVars, rcVars, inVars, tpVars, svVars>>

\* ------------------------------------- monitor.rs: umount_module_files
\* a path is the sequence of its components; Path::starts_with compares components
starts_with(path, prefix) ==
    Len(path) >= Len(prefix) /\ SubSeq(path, 1, Len(prefix)) = prefix

module_dir == <<"data", "adb", "modules">>

\* MountInfo.mount_source is an Option: the table's "none" is None
NoSource == "None"

MountInfo(mp, src, fs, root) ==
    [mount_point |-> mp, mount_source |-> src, fs_type |-> fs, root |-> root]

\* the mounts a table is made of
MountKinds ==
    {MountInfo(module_dir, "/dev/loop7", "ext4", <<>>),
     MountInfo(module_dir, NoSource, "tmpfs", <<>>),
     MountInfo(<<"data", "adb", "foo">>, "KSU", "overlay", <<>>),
     MountInfo(<<"data", "adb", "modules", "m">>, "/dev/loop7", "ext4", <<"m">>),
     MountInfo(<<"system", "bin">>, "/dev/loop7", "ext4", <<"m", "system", "bin">>),
     MountInfo(<<"data", "other">>, "KSU", "tmpfs", <<>>),
     MountInfo(<<"vendor">>, "KSU", "ext4", <<>>),
     MountInfo(<<"acct">>, NoSource, "cgroup", <<>>),
     MountInfo(<<"system", "app">>, "magisk", "tmpfs", <<>>),
     MountInfo(<<"debug_ramdisk">>, "worker", "tmpfs", <<>>),
     MountInfo(<<"system", "lib">>, "/dev/block/dm-1", "ext4",
               <<"adb", "modules", "m", "system", "lib">>)}

MountTables == UNION {[1 .. n -> MountKinds] : n \in 0 .. MaxMounts}

\* `for info in mounts { if .. { mp.push(..) } }`: the positions up to n of a
\* table that pass the loop's test, in table order
RECURSIVE Picked(_, _)
Picked(passing, n) ==
    IF n = 0 THEN <<>>
    ELSE Picked(passing, n - 1) \o (IF n \in passing THEN <<n>> ELSE <<>>)

\* filter_mounts_kernelsu, first loop: `loop_dev.replace(source.to_owned())`
RECURSIVE loop_dev(_, _)
loop_dev(mounts, n) ==
    IF n = 0 THEN NoSource
    ELSE IF mounts[n].mount_point = module_dir /\ mounts[n].mount_source # NoSource
         THEN mounts[n].mount_source
         ELSE loop_dev(mounts, n - 1)

\* filter_mounts_kernelsu: the mounts pushed to `mp`, each a position of the table
\* (the Vec holds its mount_point), in the order they are pushed
filter_mounts_kernelsu(mounts) ==
    LET IsModuleDir(m) == m.mount_point = module_dir /\ m.mount_source # NoSource
        First(m) ==
            /\ ~IsModuleDir(m)
            /\ \/ starts_with(m.mount_point, <<"data", "adb">>)
               \/ m.mount_source = "KSU" /\ m.fs_type \in {"overlay", "tmpfs"}
        Second(m) ==
            m.mount_source = loop_dev(mounts, Len(mounts)) /\ m.mount_point # module_dir
        Passing(Test(_)) == {i \in 1 .. Len(mounts) : Test(mounts[i])}
    IN  Picked(Passing(First), Len(mounts)) \o Picked(Passing(Second), Len(mounts))

\* filter_mounts_magisk
filter_mounts_magisk(mounts) ==
    LET Test(m) ==
            \/ m.mount_source \in {"magisk", "worker"}
            \/ starts_with(m.root, <<"adb", "modules">>)
    IN  Picked({i \in 1 .. Len(mounts) : Test(mounts[i])}, Len(mounts))

\* `.rev()`
Reverse(q) == [i \in 1 .. Len(q) |-> q[Len(q) + 1 - i]]

\* variant: an error in the try block returns from the function
AfterError_Return == "done"

\* `if let Err(err) = res { error!(..) }` goes on to the kill
AfterError == "resume"

UmIdle ==
    /\ KSU = FALSE /\ mount_table = <<>> /\ um_pc = "idle"
    /\ um_queue = <<>> /\ um_calls = <<>>

UmInit ==
    /\ KSU \in BOOLEAN /\ mount_table \in MountTables /\ um_pc = "start"
    /\ um_queue = <<>> /\ um_calls = <<>>

\* the try block up to the loop: File::open(/proc/pid/ns/mnt)?,
\* move_into_link_name_space?, Process::myself()?, mountinfo()?, the policy's filter
umount_enter ==
    /\ um_pc = "start"
    /\ \E failed \in {"none", "open", "setns", "myself", "mountinfo"} :
          IF failed = "none"
          THEN /\ um_queue' = Reverse(IF KSU THEN filter_mounts_kernelsu(mount_table)
                                             ELSE filter_mounts_magisk(mount_table))
               /\ um_pc' = "umount"
          ELSE /\ um_pc' = AfterError
               /\ UNCHANGED um_queue
    /\ UNCHANGED <<KSU, mount_table, um_calls>>
    /\ UNCHANGED <<cpVars, dpVars, argVars, rnVars, fdVars, rcVars, inVars, tpVars, svVars>>

\* one round of the loop: libc::umount2(mp, MNT_DETACH), its result not looked at
umount_next ==
    /\ um_pc = "umount" /\ um_queue # <<>>
    /\ um_calls' = Append(um_calls, [op |-> "umount2", mount |-> Head(um_queue)])
    /\ um_queue' = Tail(um_queue)
    /\ UNCHANGED <<KSU, mount_table, um_pc>>
    /\ UNCHANGED <<cpVars, dpVars, argVars, rnVars, fdVars, rcVars, inVars, tpVars, svVars>>

\* `let _ = kill(Pid::from_raw(pid), Signal::SIGCONT)`
umount_resume ==
    /\ \/ um_pc = "resume"
       \/ um_pc = "umount" /\ um_queue = <<>>
    /\ um_calls' = Append(um_calls, [op |-> "kill", mount |-> 0])
    /\ um_pc' = "done"
    /\ UNCHANGED <<KSU, mount_table, um_queue>>
    /\ UNCHANGED <<cpVars, dpVars, argVars, rnVars, fdVars, rcVars, inVars, tpVars, svVars>>

\* ------------------------------------------------ monitor.rs: fork_daemon
FdIdle == fd_daemon = "idle" /\ fd_child = "none" /\ fd_grand = "none" /\ fd_runner = "none"

\* the RequireUmount arm has called fork_daemon for a child with this mount table
FdInit ==
    /\ fd_daemon = "call" /\ fd_child = "none" /\ fd_grand = "none" /\ fd_runner = "none"
    /\ KSU \in BOOLEAN /\ mount_table \in {t \in MountTables : Len(t) <= 1}
    /\ um_pc = "idle" /\ um_queue = <<>> /\ um_calls = <<>>

\* the daemon: `let p = libc::fork()`; `p < 0`: error!("fork 1"); `p > 0`: waitpid
fork_first ==
    /\ fd_daemon = "call"
    /\ \E p \in {-1, 1} :
          IF p < 0
          THEN fd_daemon' = "returned" /\ UNCHANGED fd_child
          ELSE fd_daemon' = "wait" /\ fd_child' = "forked"
    /\ UNCHANGED <<fd_grand, fd_runner>>
    /\ UNCHANGED <<cpVars, dpVars, argVars, umVars, rnVars, rcVars, inVars, tpVars, svVars>>

\* the first fork's process, `p == 0`: `let p = libc::fork()`; `p < 0`: error!("fork 2")
\* and the function returns; `p > 0`: func()
fork_second ==
    /\ fd_child = "forked"
    /\ \E p \in {-1, 1} :
          IF p < 0
          THEN /\ fd_child' = "returned"
               /\ UNCHANGED <<fd_grand, fd_runner, um_pc>>
          ELSE /\ fd_child' = "func"
               /\ fd_grand' = "forked"
               /\ fd_runner' = "child"
               /\ um_pc' = "start"
    /\ UNCHANGED <<fd_daemon, KSU, mount_table, um_queue, um_calls>>
    /\ UNCHANGED <<cpVars, dpVars, argVars, rnVars, rcVars, inVars, tpVars, svVars>>

\* the second fork's process, `p == 0` in the inner test: libc::exit(0)
grandchild_exit ==
    /\ fd_grand = "forked"
    /\ fd_grand' = "exited"
    /\ UNCHANGED <<fd_daemon, fd_child, fd_runner>>
    /\ UNCHANGED <<cpVars, dpVars, argVars, umVars, rnVars, rcVars, inVars, tpVars, svVars>>

\* the closure of the RequireUmount arm after umount_module_files: process::exit(0)
func_exit ==
    /\ fd_child = "func" /\ um_pc = "done"
    /\ fd_child' = "exited"
    /\ UNCHANGED <<fd_daemon, fd_grand, fd_runner>>
    /\ UNCHANGED <<cpVars, dpVars, argVars, umVars, rnVars, rcVars, inVars, tpVars, svVars>>

\* the daemon: `libc::waitpid(p, &mut s, libc::__WALL)` returns when the process of
\* the first fork has exited
fork_daemon_wait ==
    /\ fd_daemon = "wait" /\ fd_child = "exited"
    /\ fd_daemon' = "returned"
    /\ UNCHANGED <<fd_child, fd_grand, fd_runner>>
    /\ UNCHANGED <<cpVars, dpVars, argVars, umVars, rnVars, rcVars, inVars, tpVars, svVars>>

\* ------------------------- loader.rs: a remote call (TraceeWrapper::call)

Archs == {"x86_64", "aarch64"}

\* arch_select!(6, 8) in Tracee::set_arg and Tracee::call
call_args_on_regs(ar) == IF ar = "x86_64" THEN 6 ELSE 8

\* Registers: the fields of user_regs_struct the loader reads and writes
RegNames(ar) ==
    IF ar = "x86_64"
    THEN {"rip", "rsp", "rax", "rdi", "rsi", "rdx", "rcx", "r8", "r9"}
    ELSE {"pc", "sp", "x0", "x1", "x2", "x3", "x4", "x5", "x6", "x7", "x30"}

\* Registers::sp, Registers::pc, Registers::return_value
SP(ar) == IF ar = "x86_64" THEN "rsp" ELSE "sp"
PC(ar) == IF ar = "x86_64" THEN "rip" ELSE "pc"
RV(ar) == IF ar = "x86_64" THEN "rax" ELSE "x0"

\* Registers::set_arg: the register of argument n (counted from 0)
ArgReg(ar, n) ==
    IF ar = "x86_64"
    THEN <<"rdi", "rsi", "rdx", "rcx", "r8", "r9">>[n + 1]
    ELSE <<"x0", "x1", "x2", "x3", "x4", "x5", "x6", "x7">>[n + 1]

\* the words of the target's stack
StackWords == {8 * k : k \in 0..40}

\* the words a write of len bytes at addr touches
WordsOf(addr, len) == {w \in StackWords : w < addr + len /\ w + 8 > addr}

\* Tracee::alloc: new_sp = (regs.sp() - data.len()) & !0x7
alloc(sp, len) == (sp - len) - ((sp - len) % 8)

\* Tracee::call: regs.set_sp(regs.sp() & !0xF)
align16_None(sp) == sp
align16(sp) == sp - (sp % 16)

\* the arguments of a call: Arg::Numeric(v) or Arg::Slice(data)
Numeric(v) == [kind |-> "Numeric", v |-> v, len |-> 0]
Slice(len) == [kind |-> "Slice", v |-> 0, len |-> len]

\* TraceeWrapper::call: every slice argument is copied below sp, one after the
\* other, and replaced by its address
RECURSIVE RealArgs(_, _)
RealArgs(av, sp) ==
    IF av = <<>> THEN [sp |-> sp, real |-> <<>>, written |-> {}]
    ELSE LET a == Head(av)
             new_sp == IF a.kind = "Slice" THEN alloc(sp, a.len) ELSE sp
             rest == RealArgs(Tail(av), new_sp)
         IN  [sp |-> rest.sp,
              real |-> <<IF a.kind = "Slice" THEN new_sp ELSE a.v>> \o rest.real,
              written |-> (IF a.kind = "Slice" THEN WordsOf(new_sp, a.len) ELSE {})
                          \cup rest.written]

\* Tracee::set_return_addr(regs, addr, true): x86-64 pushes the address, AArch64
\* puts it into x30
set_return_addr(ar, rg, addr) ==
    IF ar = "x86_64"
    THEN LET sp == rg["rsp"] - 8
         IN  [regs |-> [rg EXCEPT !["rsp"] = sp], pokes |-> {<<sp, addr>>}]
    ELSE [regs |-> [rg EXCEPT !["x30"] = addr], pokes |-> {}]

\* Tracee::call up to set_regs: the registers and the stack words of the call
CallFrame(ar, rg, func, av, return_addr) ==
    LET n == Len(av)
        onregs == call_args_on_regs(ar)
        remain == IF n > onregs THEN n - onregs ELSE 0
        sp == align16(rg[SP(ar)] - remain * 8)
        r1 == [r \in RegNames(ar) |->
                 IF r = SP(ar) THEN sp
                 ELSE IF r = PC(ar) THEN func
                 ELSE IF \E i \in 0..(onregs - 1) : i < n /\ ArgReg(ar, i) = r
                      THEN av[(CHOOSE i \in 0..(onregs - 1) : ArgReg(ar, i) = r) + 1]
                      ELSE rg[r]]
        argpokes == {<<sp + 8 * (i - onregs), av[i + 1]>> : i \in onregs..(n - 1)}
        ra == set_return_addr(ar, r1, return_addr)
    IN  [regs |-> ra.regs, pokes |-> argpokes \cup ra.pokes]

\* Tracee::poke, process_vm_writev: the stack after the writes
Poke(mem, pokes, data) ==
    [w \in DOMAIN mem |->
        IF \E p \in pokes : p[1] = w THEN (CHOOSE p \in pokes : p[1] = w)[2]
        ELSE IF w \in data THEN -1
        ELSE mem[w]]

\* TraceeWrapper::call: tracee.set_regs(&backup) after Tracee::call has put back
\* the registers it was given (inner, with sp below the slices)
restore_Inner(bk, inner) == inner
restore(bk, inner) == bk

RcIdle ==
    /\ rc_arch = "x86_64"
    /\ rc_args = <<>>
    /\ rc_func = 0
    /\ rc_return_addr = 0
    /\ rc_pc = "idle"
    /\ rc_backup = <<>>
    /\ rc_real = <<>>
    /\ rc_stop = <<>>
    /\ rc_result = <<>>
    /\ t_regs = <<>>
    /\ t_mem = <<>>
    /\ t_alive = TRUE

\* the calls: 0..MaxCallArgs arguments, the first SliceCount of them slices
CallArgs ==
    {[i \in 1..n |-> IF i <= k THEN Slice(len) ELSE Numeric(100 + i)] :
        n \in 0..MaxCallArgs, k \in 0..2, len \in {5, 16}}

\* a stopped target: sp is 8-byte aligned, the stack holds the caller's words
RcInit ==
    /\ rc_arch \in Archs
    /\ rc_args \in CallArgs
    /\ rc_func \in {12288}
    /\ rc_return_addr \in {4096, 8192}
    /\ rc_pc = "start"
    /\ rc_backup = <<>>
    /\ rc_real = <<>>
    /\ rc_stop = <<>>
    /\ rc_result = <<>>
    /\ \E sp0 \in {288, 296} :
          t_regs = [r \in RegNames(rc_arch) |->
                      IF r = SP(rc_arch) THEN sp0
                      ELSE IF r = PC(rc_arch) THEN 16384 ELSE 1]
    /\ t_mem = [w \in StackWords |-> 0]
    /\ t_alive = TRUE

\* TraceeWrapper::call and Tracee::call up to ptrace::cont
\*   fail = "alloc":    process_vm_writev fails, nothing was written
\*   fail = "poke":     a write of a stack argument or of the return address fails
\*   fail = "set_regs": the register write fails; the registers written before the
\*                      rejected one may already hold the new values
\*   fail = "none":     the target runs with the registers of the call
call_begin ==
    /\ rc_pc = "start"
    /\ LET a == RealArgs(rc_args, t_regs[SP(rc_arch)])
           rg0 == [t_regs EXCEPT ![SP(rc_arch)] = a.sp]
           f == CallFrame(rc_arch, rg0, rc_func, a.real, rc_return_addr)
       IN  /\ rc_backup' = t_regs
           /\ \E fail \in {"none", "alloc", "poke", "set_regs"} :
                 /\ fail = "alloc" => a.written # {}
                 /\ fail = "poke" => f.pokes # {}
                 /\ rc_real' = IF fail = "alloc" THEN <<>> ELSE a.real
                 /\ t_mem' = CASE fail = "alloc" -> t_mem
                               [] fail = "poke" -> Poke(t_mem, {}, a.written)
                               [] OTHER -> Poke(t_mem, f.pokes, a.written)
                 /\ IF fail = "none"
                    THEN /\ t_regs' = f.regs
                         /\ rc_pc' = "running"
                    ELSE /\ t_regs' \in {t_regs}
                                \cup (IF fail = "set_regs"
                                      THEN {[f.regs EXCEPT ![PC(rc_arch)] = t_regs[PC(rc_arch)]]}
                                      ELSE {})
                         /\ rc_pc' = "failed"
    /\ UNCHANGED <<rc_arch, rc_args, rc_func, rc_return_addr, rc_stop, rc_result, t_alive>>
    /\ UNCHANGED <<cpVars, dpVars, argVars, umVars, rnVars, fdVars, inVars, tpVars, svVars>>

\* the target runs from func until the tracer's waitpid reports it
\*   "returned": the callee returns to return_addr and faults there (SIGSEGV)
\*   "crashed":  the callee faults at another pc (SIGSEGV)
\*   "signal":   the target stops with a signal wait() does not accept
\*   "exited":   the target is gone
target_stop ==
    /\ rc_pc = "running"
    /\ \E how \in {"returned", "crashed", "signal", "exited"}, rv \in {0, 42} :
          /\ rc_stop' = [how |-> how,
                         pc |-> IF how = "returned"
                                THEN (IF rc_arch = "x86_64"
                                      THEN t_mem[t_regs["rsp"]] ELSE t_regs["x30"])
                                ELSE 20480]
          /\ t_regs' = [r \in RegNames(rc_arch) |->
                          IF r = PC(rc_arch) THEN rc_stop'.pc
                          ELSE IF r = SP(rc_arch)
                               THEN (IF how = "returned" /\ rc_arch = "x86_64"
                                     THEN t_regs[r] + 8 ELSE t_regs[r])
                          ELSE IF r = RV(rc_arch) THEN rv
                          ELSE IF r = "x30" THEN t_regs[r]
                          ELSE 2]
          /\ t_alive' = (how # "exited")
    /\ rc_pc' = "stopped"
    /\ UNCHANGED <<rc_arch, rc_args, rc_func, rc_return_addr, rc_backup, rc_real,
                   rc_result, t_mem>>
    /\ UNCHANGED <<cpVars, dpVars, argVars, umVars, rnVars, fdVars, inVars, tpVars, svVars>>

\* Tracee::call from wait() on, and the end of TraceeWrapper::call: the result of
\* the call, and the two register writes that put the registers back (they fail
\* only on a target that is gone)
call_end ==
    /\ rc_pc \in {"failed", "stopped"}
    /\ rc_result' =
          IF rc_pc = "failed" THEN <<"Err">>
          ELSE IF rc_stop.how \notin {"returned", "crashed"} THEN <<"Err">>
          ELSE IF t_regs[PC(rc_arch)] # rc_return_addr THEN <<"Err">>
          ELSE <<"Ok", t_regs[RV(rc_arch)]>>
    /\ t_regs' = IF t_alive
                 THEN restore(rc_backup,
                              [rc_backup EXCEPT ![SP(rc_arch)] =
                                  RealArgs(rc_args, rc_backup[SP(rc_arch)]).sp])
                 ELSE t_regs
    /\ rc_pc' = "done"
    /\ UNCHANGED <<rc_arch, rc_args, rc_func, rc_return_addr, rc_backup, rc_real,
                   rc_stop, t_mem, t_alive>>
    /\ UNCHANGED <<cpVars, dpVars, argVars, umVars, rnVars, fdVars, inVars, tpVars, svVars>>

\* ------------------------------------- api/bridge/src/lib.rs: the trampoline
\* the instructions of trampoline(): the load the compiler emits for the operand
\* `ra = in(reg) ZLB_RETURN_ADDRESS`, then the asm! block
trampoline_NoPad(a) ==
    IF a = "x86_64"
    THEN <<"mov ra", "push ra", "call", "pop rax", "jmp rax">>
    ELSE <<"mov ra", "str ra", "bl", "ldr x30", "ret">>
trampoline(a) ==
    IF a = "x86_64"
    THEN <<"mov ra", "push ra", "push 0", "call", "pop rax", "pop rax", "jmp rax">>
    ELSE <<"mov ra", "stp ra, xzr", "bl", "ldp x30, xzr", "ret">>

\* the registers the trampoline uses, and the ones the compiler can pick for `ra`
TpRegs(a) == IF a = "x86_64" THEN {"rax", "rcx"} ELSE {"x8", "x9", "x30"}
TpOperandRegs(a) == IF a = "x86_64" THEN {"rax", "rcx"} ELSE {"x8", "x9"}

TpWords == {8 * k : k \in 0..16}

TpIdle ==
    /\ tp_arch = "x86_64" /\ tp_ra = "none" /\ ZLB_RETURN_ADDRESS = 0
    /\ tp_state = "idle" /\ tp_pc = 0 /\ tp_sp = 0 /\ tp_entry_sp = 0
    /\ tp_regs = <<>> /\ tp_stack = <<>> /\ tp_hook_calls = 0 /\ tp_target = 0

\* SpecializeCommon has returned to the trampoline: sp is the caller's sp after
\* the call, 16-byte aligned; ZLB_RETURN_ADDRESS holds what load_bridge poked
TpInit ==
    /\ tp_arch \in {"x86_64", "aarch64"}
    /\ tp_ra \in TpOperandRegs(tp_arch)
    /\ ZLB_RETURN_ADDRESS \in {CallerReturnAddr, CallerReturnAddr + 4}
    /\ tp_state = "run" /\ tp_pc = 1
    /\ tp_entry_sp \in {64, 80, 96, 112}
    /\ tp_sp = tp_entry_sp
    /\ tp_regs = [r \in TpRegs(tp_arch) |-> IF r = "x30" THEN Trampoline ELSE 1]
    /\ tp_stack = [w \in TpWords |-> 0]
    /\ tp_hook_calls = 0 /\ tp_target = 0

\* one instruction of the trampoline
trampoline_step ==
    /\ tp_state = "run"
    /\ LET insn == trampoline(tp_arch)[tp_pc]
           pops == insn \in {"pop rax", "ldr x30"}
       IN  /\ tp_regs' =
                 CASE insn = "mov ra" -> [tp_regs EXCEPT ![tp_ra] = ZLB_RETURN_ADDRESS]
                   [] insn = "pop rax" -> [tp_regs EXCEPT !["rax"] = tp_stack[tp_sp]]
                   [] insn \in {"ldp x30, xzr", "ldr x30"} ->
                          [tp_regs EXCEPT !["x30"] = tp_stack[tp_sp]]
                   [] insn = "bl" -> [tp_regs EXCEPT !["x30"] = Trampoline + 8]
                   [] OTHER -> tp_regs
           /\ tp_sp' =
                 CASE insn \in {"push ra", "push 0", "call", "str ra"} -> tp_sp - 8
                   [] insn = "stp ra, xzr" -> tp_sp - 16
                   [] pops -> tp_sp + 8
                   [] insn = "ldp x30, xzr" -> tp_sp + 16
                   [] OTHER -> tp_sp
           /\ tp_stack' =
                 CASE insn \in {"push ra", "str ra"} ->
                          [tp_stack EXCEPT ![tp_sp - 8] = tp_regs[tp_ra]]
                   [] insn = "push 0" -> [tp_stack EXCEPT ![tp_sp - 8] = 0]
                   [] insn = "call" -> [tp_stack EXCEPT ![tp_sp - 8] = Trampoline + 8]
                   [] insn = "stp ra, xzr" ->
                          [tp_stack EXCEPT ![tp_sp - 16] = tp_regs[tp_ra],
                                           ![tp_sp - 8] = 0]
                   [] OTHER -> tp_stack
           /\ tp_state' =
                 CASE insn \in {"call", "bl"} -> "hook"
                   [] insn \in {"jmp rax", "ret"} -> "out"
                   [] OTHER -> "run"
           /\ tp_target' =
                 CASE insn = "jmp rax" -> tp_regs["rax"]
                   [] insn = "ret" -> tp_regs["x30"]
                   [] OTHER -> tp_target
           /\ tp_hook_calls' = IF insn \in {"call", "bl"} THEN tp_hook_calls + 1
                               ELSE tp_hook_calls
           /\ tp_pc' = IF insn \in {"jmp rax", "ret"} THEN tp_pc ELSE tp_pc + 1
    /\ UNCHANGED <<tp_arch, tp_ra, ZLB_RETURN_ADDRESS, tp_entry_sp>>
    /\ UNCHANGED <<cpVars, dpVars, argVars, umVars, rnVars, fdVars, rcVars, inVars, svVars>>

\* after_specialize runs: it returns to the instruction after the call with sp as
\* it was at the call instruction, the caller-saved registers and the words below
\* sp holding what it left there; or it panics, which ends the process
after_specialize_return ==
    /\ tp_state = "hook"
    /\ \E panics \in BOOLEAN :
          IF panics
          THEN /\ tp_state' = "aborted"
               /\ UNCHANGED <<tp_sp, tp_regs, tp_stack>>
          ELSE /\ tp_state' = "run"
               /\ tp_sp' = IF tp_arch = "x86_64" THEN tp_sp + 8 ELSE tp_sp
               /\ tp_regs' = [r \in TpRegs(tp_arch) |-> 2]
               /\ tp_stack' = [w \in TpWords |-> IF w < tp_sp' THEN 2 ELSE tp_stack[w]]
    /\ UNCHANGED <<tp_arch, tp_ra, ZLB_RETURN_ADDRESS, tp_entry_sp, tp_pc, tp_hook_calls,
                   tp_target>>
    /\ UNCHANGED <<cpVars, dpVars, argVars, umVars, rnVars, fdVars, rcVars, inVars, svVars>>

\* ------------------------------------------ common/src/zygote.rs: SpecializeArgs
NULL == -1

\* the fields of SpecializeArgs after `ptr`, in the order of the struct
Fields ==
    <<"env", "uid", "gid", "gids", "runtime_flags", "rlimits",
      "permitted_capabilities", "effective_capabilities", "bounding_capabilities",
      "mount_external", "managed_se_info", "managed_nice_name", "is_system_server",
      "is_child_zygote", "managed_instruction_set", "managed_app_data_dir",
      "is_top_app", "pkg_data_info_list", "allowlisted_data_info_list",
      "mount_data_dirs", "mount_storage_dirs", "mount_sysprop_overrides">>

FieldSet == {Fields[i] : i \in 1..Len(Fields)}

\* the arguments of the arg! invocation of each field: <<min, idx>> pairs
ArgPairs ==
    [env                        |-> <<<<31, 0>>>>,
     uid                        |-> <<<<31, 1>>>>,
     gid                        |-> <<<<31, 2>>>>,
     gids                       |-> <<<<31, 3>>>>,
     runtime_flags              |-> <<<<31, 4>>>>,
     rlimits                    |-> <<<<31, 5>>>>,
     permitted_capabilities     |-> <<<<31, 6>>>>,
     effective_capabilities     |-> <<<<31, 7>>>>,
     bounding_capabilities      |-> <<<<35, 8>>>>,
     mount_external             |-> <<<<35, 9>>, <<31, 8>>>>,
     managed_se_info            |-> <<<<35, 10>>, <<31, 9>>>>,
     managed_nice_name          |-> <<<<35, 11>>, <<31, 10>>>>,
     is_system_server           |-> <<<<35, 12>>, <<31, 11>>>>,
     is_child_zygote            |-> <<<<35, 13>>, <<31, 12>>>>,
     managed_instruction_set    |-> <<<<35, 14>>, <<31, 13>>>>,
     managed_app_data_dir       |-> <<<<35, 15>>, <<31, 14>>>>,
     is_top_app                 |-> <<<<35, 16>>, <<31, 15>>>>,
     pkg_data_info_list         |-> <<<<35, 17>>, <<31, 16>>>>,
     allowlisted_data_info_list |-> <<<<35, 18>>, <<31, 17>>>>,
     mount_data_dirs            |-> <<<<35, 19>>, <<31, 18>>>>,
     mount_storage_dirs         |-> <<<<35, 20>>, <<31, 19>>>>,
     mount_sysprop_overrides    |-> <<<<35, 21>>>>]

\* macro arg!: `if *SDK_VERSION >= $min { value.offset($idx) } else` for every
\* pair in turn, `{ ptr::null_mut() }` at the end
\* variant: the last pair that applies wins
RECURSIVE arg_LastWins(_, _)
arg_LastWins(sdk, pairs) ==
    IF pairs = <<>> THEN NULL
    ELSE LET rest == arg_LastWins(sdk, Tail(pairs))
         IN  IF rest # NULL THEN rest
             ELSE IF sdk >= Head(pairs)[1] THEN Head(pairs)[2] ELSE NULL

RECURSIVE arg(_, _)
arg(sdk, pairs) ==
    IF pairs = <<>> THEN NULL
    ELSE IF sdk >= Head(pairs)[1] THEN Head(pairs)[2]
    ELSE arg(sdk, Tail(pairs))

\* impl From<*mut u64> for SpecializeArgs: the slot each field points to
SpecializeArgs_from(sdk) == [f \in FieldSet |-> arg(sdk, ArgPairs[f])]

\* SpecializeArgs::as_slice: the length of the slice, or the panic
as_slice(sdk) ==
    IF sdk \in 31..34 THEN <<"Ok", 20>>
    ELSE IF sdk = 35 THEN <<"Ok", 22>>
    ELSE <<"panic">>

\* the SDK versions of the model: the supported ones and SdkMargin on either side
SdkVersions == (31 - SdkMargin)..(35 + SdkMargin)

\* the users of a view: check_process in the daemon, on_specialize in a bridge
SvUsers == {"check_process", "on_specialize"}

\* the fields check_process dereferences, in its order
CheckProcessReads == <<"env", "managed_nice_name", "managed_app_data_dir", "uid">>

SvIdle ==
    /\ SDK_VERSION = 0 /\ sv_user = "none" /\ sv_pc = "idle" /\ sv_view = <<>>
    /\ sv_slice = 0 /\ sv_read = <<>>

SvInit ==
    /\ SDK_VERSION \in SdkVersions
    /\ sv_user \in SvUsers
    /\ sv_pc = "start" /\ sv_view = <<>> /\ sv_slice = 0 /\ sv_read = <<>>

\* `SpecializeArgs::from(args.as_ptr() as *mut _)`
view_from ==
    /\ sv_pc = "start"
    /\ sv_view' = SpecializeArgs_from(SDK_VERSION)
    /\ sv_pc' = "view"
    /\ UNCHANGED <<SDK_VERSION, sv_user, sv_slice, sv_read>>
    /\ UNCHANGED <<cpVars, dpVars, argVars, umVars, rnVars, fdVars, rcVars, inVars, tpVars>>

\* on_specialize of a bridge: `lock.args.extend(args.as_slice())`
view_as_slice ==
    /\ sv_pc = "view" /\ sv_user = "on_specialize"
    /\ IF as_slice(SDK_VERSION) = <<"panic">>
       THEN sv_pc' = "panicked" /\ UNCHANGED sv_slice
       ELSE sv_pc' = "sliced" /\ sv_slice' = as_slice(SDK_VERSION)[2]
    /\ UNCHANGED <<SDK_VERSION, sv_user, sv_view, sv_read>>
    /\ UNCHANGED <<cpVars, dpVars, argVars, umVars, rnVars, fdVars, rcVars, inVars, tpVars>>

\* check_process: `unsafe { *(args.<field> as *const _) }` for the next field; the
\* read of a null pointer either faults or gives whatever the build makes of it
check_process_read ==
    /\ sv_pc = "view" /\ sv_user = "check_process"
    /\ Len(sv_read) < Len(CheckProcessReads)
    /\ LET f == CheckProcessReads[Len(sv_read) + 1]
       IN  IF sv_view[f] = NULL
           THEN \E fault \in BOOLEAN :
                   /\ sv_pc' = IF fault THEN "fault" ELSE "view"
                   /\ sv_read' = Append(sv_read, <<f, NULL>>)
           ELSE /\ sv_pc' = "view"
                /\ sv_read' = Append(sv_read, <<f, sv_view[f]>>)
    /\ UNCHANGED <<SDK_VERSION, sv_user, sv_view, sv_slice>>
    /\ UNCHANGED <<cpVars, dpVars, argVars, umVars, rnVars, fdVars, rcVars, inVars, tpVars>>

\* ------------------------------------------------- symbols.rs: ArgCounter
\* the demangler writes a name as pieces: identifiers, "(", ")" and ", "; a
\* parameter is a type name, or a function type with a parameter list of its own
RECURSIVE Join(_, _)
Join(f, n) ==
    IF n = 0 THEN <<>>
    ELSE IF n = 1 THEN f[1]
    ELSE Join(f, n - 1) \o <<", ">> \o f[n]

ParamList(f, n) == <<"(">> \o Join(f, n) \o <<")">>

ListsOf(P) == UNION {{ParamList(f, n) : f \in [1 .. n -> P]} : n \in 0 .. MaxArity}

PlainParams == {<<"id">>}

Params == PlainParams \cup {<<"id">> \o l : l \in ListsOf(PlainParams)}

Symbols == {<<"id">> \o l : l \in ListsOf(Params)}

\* str::trim
Trim(s) == IF s = ", " THEN "," ELSE s

\* ArgCounter::write_string: the counter after one piece
write_string(c, s) ==
    CASE Trim(s) = "(" -> 0
      [] Trim(s) = "," -> c + 1
      [] OTHER -> c

ArgIdle == sym = <<>> /\ pos = 0 /\ count = 0 /\ args_count = -1

\* ArgCounter::new, and the name given to ArgCounter::count
ArgInit == sym \in Symbols /\ pos = 0 /\ count = 0 /\ args_count = -1

\* structured_demangle hands the next piece to the counter
DemangleWrite ==
    /\ pos < Len(sym)
    /\ count' = write_string(count, sym[pos + 1])
    /\ pos' = pos + 1
    /\ UNCHANGED <<sym, args_count>>
    /\ UNCHANGED <<cpVars, dpVars, umVars, rnVars, fdVars, rcVars, inVars, tpVars, svVars>>

\* ArgCounter::count: `Ok(counter.count + 1)`
ArgCounter_count ==
    /\ pos = Len(sym) /\ sym # <<>> /\ args_count = -1
    /\ args_count' = count + 1
    /\ UNCHANGED <<sym, pos, count>>
    /\ UNCHANGED <<cpVars, dpVars, umVars, rnVars, fdVars, rcVars, inVars, tpVars, svVars>>

\* -------------------------------------------------------- specifications
Init == CpInit /\ DpIdle /\ ArgIdle /\ UmIdle /\ RnIdle /\ FdIdle /\ RcIdle /\ InIdle /\ TpIdle /\ SvIdle

Next ==
    \/ handle_task_task_rename
    \/ \E p \in ChildPids : handle_task_task_newtask(p)
    \/ ZygoteExit
    \/ \E p \in ChildPids : ChildExit(p)
    \/ \E p \in ChildPids : handle_raw_syscalls_sys_enter(p)
    \/ \E p \in ChildPids : handle_specialize_common(p)
    \/ \E p \in ChildPids : handle_raw_syscalls_sys_exit(p)
    \/ \E p \in ChildPids : ChildSetuid(p)
    \/ ReactorStep
    \/ \E p \in ChildPids : TaskAttach(p)
    \/ \E p \in ChildPids : TaskFinish(p)

Spec == Init /\ [][Next]_vars

\* the reactor is woken while the ring holds a record, a spawned task runs on the
\* worker pool, and a child that is not stopped goes on with its code
Fairness ==
    /\ WF_vars(ReactorStep)
    /\ \A p \in ChildPids :
          /\ WF_vars(TaskAttach(p))
          /\ WF_vars(TaskFinish(p))
          /\ WF_vars(handle_raw_syscalls_sys_enter(p) /\ child[p] = "forked")
          /\ WF_vars(handle_specialize_common(p))
          /\ WF_vars(ChildSetuid(p))

FairSpec == Spec /\ Fairness

\* the bootloop guard alone: zygote starts and exits, the clock read at every crash
BootRename == ZygoteRename(MaxBootStarts)

BootReactorStep == \E t \in now .. MaxTime : ReactorIter(t)

BootNext == BootRename \/ ZygoteExit \/ BootReactorStep

BootSpec == Init /\ [][BootNext]_vars

\* one injection task on one stopped child
InjectInit == CpInit /\ DpInit /\ ArgIdle /\ UmIdle /\ RnIdle /\ FdIdle /\ RcIdle /\ InInit /\ TpIdle /\ SvIdle

InjectNext ==
    \/ handle_proc_attach
    \/ load_bridge_prepare
    \/ check_process
    \/ remote_dlopen
    \/ call_pre_hook
    \/ load_bridge_commit
    \/ TargetKilled

InjectSpec == InjectInit /\ [][InjectNext]_vars

\* ArgCounter::count on one name
ArgsInit == CpInit /\ DpIdle /\ ArgInit /\ UmIdle /\ RnIdle /\ FdIdle /\ RcIdle /\ InIdle /\ TpIdle /\ SvIdle

ArgsNext == DemangleWrite \/ ArgCounter_count

ArgsSpec == ArgsInit /\ [][ArgsNext]_vars

\* one run of umount_module_files on one mount table
UmountInit == CpInit /\ DpIdle /\ ArgIdle /\ UmInit /\ RnIdle /\ FdIdle /\ RcIdle /\ InIdle /\ TpIdle /\ SvIdle

UmountNext == umount_enter \/ umount_next \/ umount_resume

UmountSpec == UmountInit /\ [][UmountNext]_vars

\* one task_rename event
RenameInit == CpInit /\ DpIdle /\ ArgIdle /\ UmIdle /\ RnInit /\ FdIdle /\ RcIdle /\ InIdle /\ TpIdle /\ SvIdle

RenameNext == task_rename

RenameSpec == RenameInit /\ [][RenameNext]_vars

\* the child-state table over several lives of a pid: the tracer's handlers and
\* the reactor, without injection tasks
TableFork(p) == ZygoteFork(p, MaxTableForks)

TableNext ==
    \/ handle_task_task_rename
    \/ \E p \in ChildPids : TableFork(p)
    \/ \E p \in ChildPids : ChildExit(p)
    \/ \E p \in ChildPids : handle_raw_syscalls_sys_enter(p)
    \/ \E p \in ChildPids : handle_specialize_common(p)
    \/ \E p \in ChildPids : handle_raw_syscalls_sys_exit(p)
    \/ ReactorStep

TableSpec == Init /\ [][TableNext]_vars

\* the tracer and the reactor with a pid that outlives the zygote: after the
\* zygote's exit another root task runs under its pid and forks
StaleFork(p) == ForkByPid(p, MaxTableForks, "down")

StaleNext ==
    \/ handle_task_task_rename
    \/ \E p \in ChildPids : handle_task_task_newtask(p)
    \/ ZygoteExit
    \/ \E p \in ChildPids : StaleFork(p)
    \/ \E p \in ChildPids : ChildExit(p)
    \/ \E p \in ChildPids : handle_raw_syscalls_sys_enter(p)
    \/ ReactorStep

StaleSpec == Init /\ [][StaleNext]_vars

\* the tracer and the reactor under either root implementation, without the
\* injection tasks and without zygote exits
DenyInit ==
    /\ CpInit /\ DpIdle /\ ArgIdle /\ RnIdle /\ FdIdle /\ RcIdle /\ InIdle /\ TpIdle /\ SvIdle
    /\ KSU \in BOOLEAN
    /\ mount_table = <<>> /\ um_pc = "idle" /\ um_queue = <<>> /\ um_calls = <<>>

DenyNext ==
    \/ handle_task_task_rename
    \/ \E p \in ChildPids : handle_task_task_newtask(p)
    \/ \E p \in ChildPids : ChildExit(p)
    \/ \E p \in ChildPids : handle_raw_syscalls_sys_enter(p)
    \/ \E p \in ChildPids : handle_specialize_common(p)
    \/ \E p \in ChildPids : handle_raw_syscalls_sys_exit(p)
    \/ \E p \in ChildPids : ChildSetuid(p)
    \/ ReactorStep

DenySpec == DenyInit /\ [][DenyNext]_vars

\* one call of fork_daemon with the scrubber as its function
ForkInit == CpInit /\ DpIdle /\ ArgIdle /\ RnIdle /\ FdInit /\ RcIdle /\ InIdle /\ TpIdle /\ SvIdle

ForkNext ==
    \/ fork_first
    \/ fork_second
    \/ grandchild_exit
    \/ func_exit
    \/ fork_daemon_wait
    \/ UmountNext

ForkSpec == ForkInit /\ [][ForkNext]_vars

\* a remote call alone, from a stopped target to the result of the call
CallInit == CpInit /\ DpIdle /\ ArgIdle /\ UmIdle /\ RnIdle /\ FdIdle /\ RcInit /\ InIdle /\ TpIdle /\ SvIdle

CallNext ==
    \/ call_begin
    \/ target_stop
    \/ call_end

CallSpec == CallInit /\ [][CallNext]_vars

\* the trampoline alone, from the return of SpecializeCommon to the jump out
TrampolineInit ==
    CpInit /\ DpIdle /\ ArgIdle /\ UmIdle /\ RnIdle /\ FdIdle /\ RcIdle /\ InIdle /\ TpInit
    /\ SvIdle

TrampolineNext ==
    \/ trampoline_step
    \/ after_specialize_return

TrampolineSpec == TrampolineInit /\ [][TrampolineNext]_vars

\* one SpecializeArgs view, built by check_process or by a bridge's on_specialize
SdkInit ==
    CpInit /\ DpIdle /\ ArgIdle /\ UmIdle /\ RnIdle /\ FdIdle /\ RcIdle /\ InIdle /\ TpIdle
    /\ SvInit

SdkNext ==
    \/ view_from
    \/ view_as_slice
    \/ check_process_read

SdkSpec == SdkInit /\ [][SdkNext]_vars

\* ------------------------------------------------------------------ claims

\* ------------------------------------------------------------- properties
Rank(tag) ==
    CASE tag = "ZygoteForked" -> 1
      [] tag = "RequireUprobeAttach" -> 2
      [] tag = "RequireInject" -> 3
      [] tag = "RequireUmount" -> 4
      [] OTHER -> 0

\* this step submits a record with this tag for child p
Emitting(p, tag) ==
    /\ Len(EVENT_CHANNEL') = Len(EVENT_CHANNEL) + 1
    /\ EVENT_CHANNEL'[Len(EVENT_CHANNEL')] = Event(tag, p, EVENT_CHANNEL'[Len(EVENT_CHANNEL')].arg)

\* this step is the reactor's iteration on a record with this tag for process p
Handling(p, tag) ==
    /\ EVENT_CHANNEL # <<>>
    /\ EVENT_CHANNEL' = Tail(EVENT_CHANNEL)
    /\ Head(EVENT_CHANNEL).pid = p /\ Head(EVENT_CHANNEL).tag = tag

ChildTags == {"ZygoteForked", "RequireUprobeAttach", "RequireInject", "RequireUmount"}

\* C1: every SIGSTOP the tracer raises on a child is followed by a userspace
\* resumption of that child: while the daemon runs, no stopped child stays
\* stopped forever.
C1_StoppedChildIsResumed ==
    \A p \in ChildPids : stopped[p] ~> (~stopped[p] \/ reactor # "running")

C3_InjectedRegisters ==
    step = "injected" =>
        /\ bridge_loaded
        /\ target_regs.pc = IF arch = "x86_64" THEN backup.pc - 1 ELSE backup.pc - 4
        /\ target_regs.sp = IF arch = "x86_64" THEN backup.sp + 8 ELSE backup.sp
        /\ target_regs.other = backup.other
        /\ IF arch = "aarch64"
           THEN target_regs.lr = Trampoline
           ELSE target_regs.lr = backup.lr /\ target_stack[target_regs.sp] = Trampoline
        /\ \A i \in ArgRegs :
              target_regs.arg[i] # backup.arg[i]
                 => (i < args_on_regs /\ i \in ArgIndex /\ hook_args[i] # args[i])
        /\ \A x \in StackAddrs :
              target_stack[x] # StackAtUprobe(arch)[x]
                 => \/ arch = "x86_64" /\ x = target_regs.sp
                    \/ \E n \in ArgIndex :
                          /\ n >= args_on_regs /\ x = ArgPeekAddr(target_regs, n)
                          /\ hook_args[n] # args[n]

C3_Witness ==
    step = "injected" /\ arch = "x86_64" /\ hook_args # args

\* C4 (as stated): when the filter says false the target is released with the
\* registers of the snapshot, without dlopen and without a redirected return.
C4_SkipRestoresSnapshot ==
    step = "skipped" =>
        /\ target_regs = backup
        /\ ~bridge_loaded
        /\ target_stack = StackAtUprobe(arch)

\* C4 (amended): when the filter says false load_bridge returns Ok and nothing is
\* written back: the target is released with the registers of the architecture's
\* first correction (aarch64: the snapshot; x86_64: the snapshot with pc - 1 and
\* sp + 8), without dlopen and without a redirected return.
C4_SkipKeepsCorrection ==
    step = "skipped" =>
        /\ target_regs = RevertPush(backup)
        /\ (arch = "aarch64" => target_regs = backup)
        /\ (arch = "x86_64" =>
               target_regs = [backup EXCEPT !.pc = backup.pc - 1, !.sp = backup.sp + 8])
        /\ ~bridge_loaded
        /\ target_stack = StackAtUprobe(arch)

C4_Witness ==
    step = "skipped" /\ arch = "x86_64" /\ filter_fn = "reject"

\* C5: every entry put into the attachment map is removed again (while the daemon
\* runs).
C5_EntryEventuallyRemoved ==
    \A p \in ChildPids :
        (attached_procs[p] # 0) ~> (attached_procs[p] = 0 \/ reactor # "running")

\* C6 (as stated): zygote_crashed drops exactly the timestamps strictly older than
\* the window (one of age exactly the window is kept), and the queue does not get
\* shorter across two insertions less than the window apart.
C6_PurgeStrictlyOlder ==
    [][Handling(ZygotePid, "ZygoteCrashed") =>
          LET Kept(x) == now' - x <= BOOTLOOP_DETECT_DURATION
          IN  /\ tracker' = Append(SelectSeq(tracker, Kept), now')
              /\ (tracker # <<>> /\ now' - tracker[Len(tracker)] < BOOTLOOP_DETECT_DURATION)
                    => Len(tracker') >= Len(tracker)
      ]_vars

\* C6 (amended): zygote_crashed drops exactly the timestamps of age at least the
\* window (one of age exactly the window is dropped), and in the reactor the queue
\* does not get shorter across two insertions less than the window apart.
C6_PurgeAtWindow ==
    [][Handling(ZygotePid, "ZygoteCrashed") =>
          LET Kept(x) == now' - x < BOOTLOOP_DETECT_DURATION
          IN  /\ tracker' = Append(SelectSeq(tracker, Kept), now')
              /\ (tracker # <<>> /\ now' - tracker[Len(tracker)] < BOOTLOOP_DETECT_DURATION)
                    => Len(tracker') >= Len(tracker)
      ]_vars

C6_Witness ==
    /\ Len(crashLog) = 2 /\ crashLog[2] = crashLog[1] + BOOTLOOP_DETECT_DURATION
    /\ tracker = <<crashLog[2]>>

\* C7: handling ZygoteCrashed ends the reactor loop exactly when the crashes seen
\* less than the window ago, this one included, number at least the threshold.
C7_ExitAtThreshold ==
    [][Handling(ZygotePid, "ZygoteCrashed") =>
          LET recent == {i \in 1 .. Len(crashLog') : now' - crashLog'[i] < BOOTLOOP_DETECT_DURATION}
          IN  (reactor' = "bootloop") <=> (Cardinality(recent) >= BOOTLOOP_DETECT_THRESHOLD)
      ]_vars

C7_Witness ==
    reactor = "bootloop" /\ Len(crashLog) > BOOTLOOP_DETECT_THRESHOLD

\* C8: the reactor loop ends only when the bootloop tracker reports the threshold;
\* no error of one iteration ends it.
C8_LoopEndsOnlyOnBootloop == reactor \in {"running", "bootloop"}

RECURSIVE OuterCommas(_, _, _)
\* the ", " pieces of s from position i on that lie directly in the outermost list
OuterCommas(s, i, depth) ==
    IF i > Len(s) THEN 0
    ELSE CASE s[i] = "(" -> OuterCommas(s, i + 1, depth + 1)
           [] s[i] = ")" -> OuterCommas(s, i + 1, depth - 1)
           [] s[i] = ", " -> (IF depth = 1 THEN 1 ELSE 0) + OuterCommas(s, i + 1, depth)
           [] OTHER -> OuterCommas(s, i + 1, depth)

\* C10: count_args is the number of top-level commas of the outermost parameter
\* list plus one, and zero when that list is empty; nested lists do not count.
C10_CountsOutermostList ==
    args_count # -1 =>
        args_count = IF sym[3] = ")" THEN 0 ELSE OuterCommas(sym, 1, 0) + 1

\* C11: a shutdown on a detected bootloop ends the process with a status other
\* than the 0 of a graceful shutdown, and an unrecoverable error with a nonzero one.
C11_BootloopStatusDistinct ==
    /\ main_result = "Ok" => exit_status(main_result) # 0
    /\ main_result = "Err" => exit_status(main_result) # 0

C13_WriteBackIsHookCopy ==
    step = "injected" =>
        \A i \in ArgIndex : TraceeArg(target_regs, target_stack, i) = hook_args[i]

\* C14: under the KernelSU policy a mount of the table is selected for detaching
\* if and only if its mount point is under /data/adb (/data/adb/modules included),
\* or its source is the source of the mount at /data/adb/modules, or its source is
\* KSU and its type overlay or tmpfs.
C14_KernelSUSelection ==
    (KSU /\ um_pc = "umount" /\ um_calls = <<>>) =>
        \A i \in 1 .. Len(mount_table) :
            LET m == mount_table[i] IN
            (\E k \in 1 .. Len(um_queue) : um_queue[k] = i)
               <=> \/ starts_with(m.mount_point, <<"data", "adb">>)
                   \/ \E j \in 1 .. Len(mount_table) :
                         /\ mount_table[j].mount_point = module_dir
                         /\ mount_table[j].mount_source = m.mount_source
                   \/ m.mount_source = "KSU" /\ m.fs_type \in {"overlay", "tmpfs"}

\* C15: under both policies the selected mounts are detached in reverse mount
\* order: of two selected mounts, the later one in the table is unmounted first.
C15_ReverseMountOrder ==
    um_pc = "done" =>
        \A i, j \in 1 .. Len(um_calls) :
            (i < j /\ um_calls[i].op = "umount2" /\ um_calls[j].op = "umount2")
               => um_calls[i].mount > um_calls[j].mount

\* C16: a run of umount_module_files sends SIGCONT exactly once and as its last
\* call, whether the namespace could be opened and joined and the mount table
\* read or not; no umount2 follows the SIGCONT.
C16_ResumeOnceAndLast ==
    LET Kills == {i \in 1 .. Len(um_calls) : um_calls[i].op = "kill"} IN
    IF um_pc = "done" THEN Kills = {Len(um_calls)} ELSE Kills = {}

C16_Witness ==
    /\ um_pc = "done" /\ ~KSU /\ Len(um_calls) = 1
    /\ filter_mounts_magisk(mount_table) # <<>>

\* C17: when the sys_enter handler has stopped a child that waited for its attach
\* and the RequireUprobeAttach record finds no room in the ring, the handler sends
\* SIGCONT to the child, in a debug build and in a release build alike.
C17_FailedEmitResumes ==
    [][\A p \in ChildPids :
          (NeedsAttach(p) /\ ZYGOTE_CHILDREN'[p] = "WaitForUmount" /\ ~CanEmit)
             => ~stopped'[p]
      ]_vars

\* C18: for every RequireInject record the reactor consumes it spawns exactly one
\* injection task for the record's pid, whether or not the attachment map had an
\* entry and whether or not the link could be detached, and the reactor itself
\* does not resume the child.
C18_InjectSpawnsOneTask ==
    [][\A p \in ChildPids :
          Handling(p, "RequireInject")
             => /\ spawned'[p] = spawned[p] + 1
                /\ stopped'[p] = stopped[p]
      ]_vars

\* C19: the reactor's iteration on a RequireUprobeAttach record makes one uprobe
\* attach attempt for the pid and then sends SIGCONT to the pid exactly once, also
\* when the attach failed; the attachment map gets a link handle for the pid if
\* and only if the attach succeeded.
C19_ResumeAfterAttach ==
    [][\A p \in ChildPids :
          Handling(p, "RequireUprobeAttach")
             => /\ Len(attach_calls') = 2
                /\ attach_calls'[1].op = "attach" /\ attach_calls'[1].pid = p
                /\ attach_calls'[2].op = "kill" /\ attach_calls'[2].pid = p
                /\ IF attach_calls'[1].res = "ok"
                   THEN /\ attached_procs'[p] = gen[p]
                        /\ <<p, gen[p]>> \in uprobe_links'
                   ELSE UNCHANGED <<attached_procs, uprobe_links>>
      ]_vars

C19_Witness ==
    \E p \in ChildPids :
        /\ attach_calls = <<Call("attach", p, "err"), Call("kill", p, "ok")>>
        /\ attached_procs[p] = 0 /\ ~stopped[p]

\* C20: a tracer program that runs for a task whose effective uid is not 0
\* submits no record, changes no map and stops nobody.
C20_NonRootTaskIgnored ==
    [][\A p \in ChildPids :
          (~is_root(Uid(p)) /\ child'[p] # child[p])
             => /\ UNCHANGED <<EVENT_CHANNEL, ZYGOTE_PID, ZYGOTE_CHILDREN>>
                /\ ~stopped[p] => ~stopped'[p]
      ]_vars

\* C21: the task_rename handler submits ZygoteStarted and overwrites the zygote-PID
\* cell if and only if the 16 bytes of the new comm are `zygote64` followed by NUL;
\* a comm that only begins with zygote64 is not taken for the zygote.
C21_ExactCommOnly ==
    (rename_done /\ is_root(rename_uid)) =>
        ((EVENT_CHANNEL # <<>> /\ ZYGOTE_PID = ZygotePid) <=> new_comm = CommOf(ZYGOTE_NAME))

\* C22: in the child-state table a pid moves only from absent to WaitForAttach (a
\* fork by the zygote), from WaitForAttach to WaitForUmount, and to absent (the
\* task exits, or RequireUmount is submitted on its unshare); an entry leaves the
\* table at unshare only when the RequireUmount record was in fact submitted.
C22_TableMoves ==
    [][\A p \in ChildPids :
          ZYGOTE_CHILDREN'[p] # ZYGOTE_CHILDREN[p]
             => \/ /\ ZYGOTE_CHILDREN[p] = "absent"
                   /\ ZYGOTE_CHILDREN'[p] = "WaitForAttach"
                   /\ Emitting(p, "ZygoteForked") \/ ~CanEmit
                \/ /\ ZYGOTE_CHILDREN[p] = "WaitForAttach"
                   /\ ZYGOTE_CHILDREN'[p] = "WaitForUmount"
                \/ /\ ZYGOTE_CHILDREN'[p] = "absent"
                   /\ child'[p] = "dead" \/ Emitting(p, "RequireUmount")
      ]_vars

\* C23: a fork by the zygote inserts the child's entry only where the table has
\* none for that pid, and the sys_enter handler sets an entry to WaitForUmount only
\* where the table still has one.
C23_NoOverwriteNoRecreate ==
    [][\A p \in ChildPids :
          /\ gen'[p] # gen[p]
                => ZYGOTE_CHILDREN[p] = "absent" /\ ZYGOTE_CHILDREN'[p] = "WaitForAttach"
          /\ (ZYGOTE_CHILDREN'[p] = "WaitForUmount" /\ ZYGOTE_CHILDREN[p] # "WaitForUmount")
                => ZYGOTE_CHILDREN[p] = "WaitForAttach"
      ]_vars

C23_Witness ==
    \E p \in ChildPids : gen[p] = 2 /\ ZYGOTE_CHILDREN[p] = "WaitForUmount"

\* C24: a link attached for a pid is detached before the pid's entry leaves the
\* attachment map: every link that is still attached has its entry in the map.
C24_LinkReleasedBeforeEntry ==
    \A l \in uprobe_links : attached_procs[l[1]] = l[2]

C26_ScrubInGrandchild ==
    /\ um_pc # "idle" => fd_runner = "grandchild"
    /\ fd_child # "func"

\* C27: when a remote call has returned, with a value or with an error, a target
\* that still exists has the registers it had before the call, sp included even
\* though slices were copied below it; the call gives a value only if the target
\* stopped at the return address chosen for the call.
C27_CallRestoresRegisters ==
    rc_pc = "done" =>
        /\ t_alive => t_regs = rc_backup
        /\ rc_result # <<"Err">> =>
              /\ rc_stop # <<>>
              /\ rc_stop.how \in {"returned", "crashed"}
              /\ rc_stop.pc = rc_return_addr

C27_Witness ==
    /\ rc_pc = "done"
    /\ rc_result # <<"Err">>
    /\ \E i \in 1..Len(rc_args) : rc_args[i].kind = "Slice"
    /\ Len(rc_args) > call_args_on_regs(rc_arch)
    /\ t_regs = rc_backup

\* C28: when the target is let run into the called function, the first 6 (x86-64)
\* or 8 (AArch64) arguments are in the argument registers, argument i beyond them
\* is at entry sp + 8 + 8*(i-6) (x86-64, above the return address at entry sp) or
\* entry sp + 8*(i-8) (AArch64), sp was 16-byte aligned when the return address
\* was placed, and no word at or above the sp of before the call was written.
C28_CallFrameLayout ==
    rc_pc = "running" =>
        LET x86 == rc_arch = "x86_64"
            entry == t_regs[SP(rc_arch)]
            InReg == IF x86 THEN 6 ELSE 8
            RegOf(i) == IF x86
                        THEN <<"rdi", "rsi", "rdx", "rcx", "r8", "r9">>[i + 1]
                        ELSE <<"x0", "x1", "x2", "x3", "x4", "x5", "x6", "x7">>[i + 1]
        IN  /\ \A i \in 0..(Len(rc_real) - 1) :
                  IF i < InReg
                  THEN t_regs[RegOf(i)] = rc_real[i + 1]
                  ELSE t_mem[IF x86 THEN entry + 8 + 8 * (i - 6)
                                    ELSE entry + 8 * (i - 8)] = rc_real[i + 1]
            /\ IF x86
               THEN (entry + 8) % 16 = 0 /\ t_mem[entry] = rc_return_addr
               ELSE entry % 16 = 0 /\ t_regs["x30"] = rc_return_addr
            /\ t_regs[PC(rc_arch)] = rc_func
            /\ \A w \in StackWords : w >= rc_backup[SP(rc_arch)] => t_mem[w] = 0

C28_Witness ==
    /\ rc_pc = "running"
    /\ Len(rc_real) >= 10
    /\ rc_backup[SP(rc_arch)] % 16 # 0
    /\ \E i \in 1..Len(rc_args) : rc_args[i].kind = "Slice"

\* C29: in the aarch64 build, once load_bridge is past its correction of the pc,
\* the pc it works with is 4 below the pc of the stop if and only if the first
\* instruction of SpecializeCommon is `paciasp`; otherwise it is the pc of the stop.
C29_StepBackOnlyForPaciasp ==
    (arch = "aarch64" /\ step = "loaded") =>
        /\ regs.pc = backup.pc - 4 <=> first_insn = "paciasp"
        /\ first_insn # "paciasp" => regs.pc = backup.pc

\* C30: entered through the redirected return, the trampoline calls
\* after_specialize once and then goes to the address stored in
\* ZLB_RETURN_ADDRESS with sp as it was at entry; at the call instruction sp is
\* 16-byte aligned.
C30_TrampolineBalanced ==
    /\ tp_hook_calls <= 1
    /\ tp_state = "hook" =>
          (IF tp_arch = "x86_64" THEN tp_sp + 8 ELSE tp_sp) % 16 = 0
    /\ tp_state = "out" =>
          /\ tp_hook_calls = 1
          /\ tp_target = ZLB_RETURN_ADDRESS
          /\ tp_sp = tp_entry_sp

C30_Witness ==
    /\ tp_state = "out"
    /\ tp_hook_calls = 1
    /\ tp_target = ZLB_RETURN_ADDRESS

\* C31: a view built on SDK 31..34 has env..effective_capabilities at slots 0..7,
\* mount_external..mount_storage_dirs at slots 8..19, bounding_capabilities and
\* mount_sysprop_overrides null, and a slice of 20 words; on SDK 35
\* bounding_capabilities is slot 8, mount_external..mount_storage_dirs are slots
\* 9..20, mount_sysprop_overrides is slot 21 and the slice has 22 words; no two
\* fields share a slot.
C31_LayoutTable ==
    (sv_pc \in {"view", "sliced"} /\ SDK_VERSION \in 31..35) =>
        LET Pos(f) == CHOOSE k \in 1..22 : Fields[k] = f
            Expected(f) ==
                IF SDK_VERSION = 35 THEN Pos(f) - 1
                ELSE IF Pos(f) <= 8 THEN Pos(f) - 1
                ELSE IF Pos(f) \in {9, 22} THEN NULL
                ELSE Pos(f) - 2
        IN  /\ \A f \in FieldSet : sv_view[f] = Expected(f)
            /\ \A f, g \in FieldSet :
                  (f # g /\ sv_view[f] # NULL) => sv_view[f] # sv_view[g]
            /\ sv_pc = "sliced" => sv_slice = (IF SDK_VERSION = 35 THEN 22 ELSE 20)
            /\ \A f \in FieldSet : sv_view[f] # NULL => sv_view[f] < as_slice(SDK_VERSION)[2]

C31_Witness ==
    /\ sv_pc = "sliced" /\ SDK_VERSION = 35
    /\ sv_view["mount_sysprop_overrides"] = 21 /\ sv_slice = 22

\* C32: on an SDK version below 31 or above 35 no view is used: no view exists
\* outside a fatal failure, and no field of one is dereferenced.
C32_UnsupportedSdkIsFatal ==
    SDK_VERSION \notin 31..35 =>
        /\ sv_pc \in {"idle", "start", "panicked"}
        /\ sv_read = <<>>

\* C33: under the KernelSU policy, with no mount at /data/adb/modules in the
\* table, the loop-device rule selects nothing: every selected mount is under
\* /data/adb or has source KSU and type overlay or tmpfs, and a mount without a
\* source is not selected for having none.
C33_NoLoopDeviceNoDerived ==
    (/\ KSU /\ um_pc = "umount" /\ um_calls = <<>>
     /\ \A j \in 1 .. Len(mount_table) : mount_table[j].mount_point # module_dir) =>
        \A k \in 1 .. Len(um_queue) :
            LET m == mount_table[um_queue[k]] IN
            \/ starts_with(m.mount_point, <<"data", "adb">>)
            \/ m.mount_source = "KSU" /\ m.fs_type \in {"overlay", "tmpfs"}

\* C34: every RequireUmount record in the ring carries uid 0, the uid of the task
\* whose unshare the sys_exit handler reported; a task with an application uid
\* that returns from unshare while its entry waits for the umount submits none.
C34_RequireUmountUidIsRoot ==
    \A i \in 1 .. Len(EVENT_CHANNEL) :
        EVENT_CHANNEL[i].tag = "RequireUmount" => EVENT_CHANNEL[i].arg = 0

C34_Witness ==
    \E i \in 1 .. Len(EVENT_CHANNEL) :
        /\ EVENT_CHANNEL[i].tag = "RequireUmount"
        /\ EVENT_CHANNEL[i].arg = 0
        /\ child[EVENT_CHANNEL[i].pid] = "unshared"

\* C35: under both root implementations denylist::check is false for every uid,
\* and the reactor's handling of a RequireUmount record forks no scrubber, unmounts
\* nothing and sends no SIGCONT: the child the record names stays stopped.
C35_UmountArmDoesNothing ==
    [][(/\ EVENT_CHANNEL # <<>>
        /\ Head(EVENT_CHANNEL).tag = "RequireUmount"
        /\ EVENT_CHANNEL' = Tail(EVENT_CHANNEL))
          => /\ \A u \in {RootUid, AppUid} : ~denylist_check(u)
             /\ stopped' = stopped
             /\ attach_calls' = attach_calls
             /\ UNCHANGED <<fdVars, umVars>>
      ]_vars

C35_Witness ==
    \E p \in ChildPids :
        /\ "RequireUmount" \in handled[p]
        /\ stopped[p] /\ child[p] = "unshared"
        /\ fd_daemon = "idle" /\ um_pc = "idle" /\ KSU

\* C36: the zygote-PID cell changes only in a step of the task_rename handler; the
\* exit of the zygote submits ZygoteCrashed and leaves the cell as it is, and a
\* task forked after that exit by a root task running under the dead zygote's pid
\* is entered into the child table as WaitForAttach.
C36_CellWrittenByRenameOnly ==
    [][/\ ZYGOTE_PID' # ZYGOTE_PID => (zygote = "down" /\ zygote' = "up")
       /\ (zygote = "up" /\ zygote' = "down") =>
             /\ ZYGOTE_PID' = ZYGOTE_PID
             /\ (Len(EVENT_CHANNEL) < ChannelCap /\ ZYGOTE_PID = ZygotePid) =>
                   EVENT_CHANNEL' = Append(EVENT_CHANNEL,
                                           [tag |-> "ZygoteCrashed", pid |-> ZygotePid,
                                            arg |-> 0])
       /\ \A p \in ChildPids :
             (zygote = "down" /\ zygote' = "down" /\ gen'[p] # gen[p]) =>
                 /\ ZYGOTE_PID = ZygotePid
                 /\ ZYGOTE_CHILDREN'[p] = "WaitForAttach"
      ]_vars

C36_Witness ==
    /\ zygote = "down" /\ ZYGOTE_PID = ZygotePid
    /\ TotalForks > MaxForks
    /\ \E p \in ChildPids : child[p] = "forked" /\ ZYGOTE_CHILDREN[p] = "WaitForAttach"

\* C37: load_bridge writes every argument back to the place it read it from: after
\* the write-back the register or stack word that arg(regs, i) read holds the
\* value written for argument i, the address set_arg computes from the adjusted
\* sp is the address arg peeked, and sp is the sp the correction for the uprobe
\* left.
C37_WriteBackSamePlace ==
    step = "injected" =>
        LET read == RevertPush(backup) IN
        /\ \A i \in ArgIndex :
              /\ TraceeArg(read, target_stack, i) = args[i]
              /\ i >= args_on_regs =>
                    ArgPokeAddr(SkipReturnAddr(read), i)
                        = read.sp + (IF arch = "x86_64" THEN 8 * (i - 6) + 8
                                                         ELSE 8 * (i - 8))
        /\ regs.sp = read.sp
        /\ target_regs.sp = read.sp

C37_Witness ==
    /\ step = "injected" /\ arch = "aarch64"
    /\ \E i \in ArgIndex :
          i >= args_on_regs /\ target_stack[ArgPeekAddr(regs, i)] = args[i]

\* C38: of the processes of one fork_daemon call only the daemon returns from it
\* into the reactor loop: the process of the first fork and the process of the
\* second fork never return, whatever either fork gives, and the function runs
\* in one process at most.
C38_OnlyDaemonReturns ==
    /\ fd_child # "returned"
    /\ fd_grand # "returned"
    /\ ~(fd_child = "func" /\ fd_grand = "func")

====
